---- MODULE Spec2Model ----
(***************************************************************************)
(* Ledger posting engine and reporting aggregator of bks_backend.          *)
(*                                                                         *)
(* Money is modelled in the smallest monetary unit (cents) as an integer;  *)
(* a Numeric(18, 2) column value v is the integer 100 * v.                 *)
(* Identifiers (UUIDs) are modelled by the position of the row in its      *)
(* table; 0 stands for NULL / None.                                        *)
(***************************************************************************)
EXTENDS Integers, Sequences, FiniteSets, TLC

\* ---------------------------------------------------------------- bounds
MaxAmount == 3          \* largest document amount (cents) drawn as input
MaxDocs == 3            \* documents created in the AR and in the AP specification
MaxPostingDocs == 2     \* documents created in the specification of all four postings
MaxLedgerDocs == 1      \* documents created in the general-ledger specification
MaxManual == 1          \* manual journal entries in the general-ledger specification
MaxEntries == 2         \* manual journal entries in the reporting specification
MaxLineAmount == 1      \* largest debit/credit of a manually entered line
MaxConcDocs == 3        \* documents created in the specification of overlapping calls
MaxResolveDocs == 1     \* documents created in the specification of account resolution
MaxDirect == 2          \* journal entries created in the specification of direct calls
MaxRows == 2            \* journal entries of the ledgers the reports are compared on
MaxOffset == 100        \* cents above 0 and above 2^53 of the amounts converted

\* ---------------------------------------------------------------- helpers
Abs(x) == IF x < 0 THEN -x ELSE x

RECURSIVE SumSeq(_)
SumSeq(s) == IF s = <<>> THEN 0 ELSE Head(s) + SumSeq(Tail(s))

RECURSIVE SumSet(_, _)
\* sum of f[x] over the finite set S
SumSet(f, S) ==
    IF S = {} THEN 0
    ELSE LET x == CHOOSE y \in S : TRUE IN f[x] + SumSet(f, S \ {x})

\* ---------------------------------------------------------------- enums
ASSET == "asset"
LIABILITY == "liability"
EQUITY == "equity"
REVENUE == "revenue"
EXPENSE == "expense"
AccountType == {ASSET, LIABILITY, EQUITY, REVENUE, EXPENSE}

AR == "ar"
AP == "ap"
MANUAL == "manual"
SourceModule == {AR, AP, "bank", MANUAL, "system"}

DRAFT == "draft"
POSTED == "posted"
VOID == "void"
JournalStatus == {DRAFT, POSTED, VOID}

SENT == "sent"
PARTIALLY_PAID == "partially_paid"
PAID == "paid"
InvoiceStatus == {DRAFT, SENT, PARTIALLY_PAID, PAID, VOID}

APPROVED == "approved"
BillStatus == {DRAFT, APPROVED, PARTIALLY_PAID, PAID, VOID}

NULL == 0

\* ---------------------------------------------------------------- strings
\* Account codes and names are sequences of one-character strings so that
\* the substring match of ilike can be computed.
Lower(c) ==
    CASE c = "A" -> "a" [] c = "B" -> "b" [] c = "C" -> "c" [] c = "E" -> "e"
      [] c = "O" -> "o" [] c = "P" -> "p" [] c = "R" -> "r" [] c = "S" -> "s"
      [] OTHER -> c

\* column.ilike("%pat%"): case-insensitive substring match
ILike(s, pat) ==
    \E i \in 0..(Len(s) - Len(pat)) :
        \A j \in 1..Len(pat) : Lower(s[i + j]) = Lower(pat[j])

PatAR == <<"A", "R">>
PatReceivable == <<"R", "e", "c", "e", "i", "v", "a", "b", "l", "e">>
PatAP == <<"A", "P">>
PatPayable == <<"P", "a", "y", "a", "b", "l", "e">>
NoPattern == <<>>

NameRevenue == <<"S", "a", "l", "e", "s", " ", "R", "e", "v", "e", "n", "u", "e">>
NameReceivable == <<"A", "c", "c", "o", "u", "n", "t", "s", " ",
                    "R", "e", "c", "e", "i", "v", "a", "b", "l", "e">>
NameCash == <<"C", "a", "s", "h">>
NameExpense == <<"O", "p", "e", "r", "a", "t", "i", "n", "g", " ",
                 "E", "x", "p", "e", "n", "s", "e", "s">>
NamePayable == <<"A", "c", "c", "o", "u", "n", "t", "s", " ",
                 "P", "a", "y", "a", "b", "l", "e">>

\* ---------------------------------------------------------------- dates
\* A date is <<year, month, day>>.
DateLT(a, b) ==
    \/ a[1] < b[1]
    \/ a[1] = b[1] /\ a[2] < b[2]
    \/ a[1] = b[1] /\ a[2] = b[2] /\ a[3] < b[3]
DateLE(a, b) == a = b \/ DateLT(a, b)

Dates == {<<2025, 1, 15>>, <<2025, 2, 10>>}
DocDates == {<<2025, 1, 15>>}
SettleDates == {<<2025, 2, 10>>}

\* ---------------------------------------------------------------- companies
Companies == {"c1", "c2"}
DocCompanies == {"c1"}

\* ---------------------------------------------------------------- charts
Account(company, code, name, type, cash, active) ==
    [company_id |-> company, code |-> code, name |-> name,
     account_type |-> type, is_cash |-> cash, is_active |-> active]

\* the chart of tests/test_posting_logic.py (sample_chart_of_accounts)
TestChart == <<
    Account("c1", <<"4", "0", "0", "0">>, NameRevenue, REVENUE, FALSE, TRUE),
    Account("c1", <<"1", "2", "0", "0">>, NameReceivable, ASSET, FALSE, TRUE),
    Account("c1", <<"1", "0", "0", "0">>, NameCash, ASSET, TRUE, TRUE),
    Account("c1", <<"5", "0", "0", "0">>, NameExpense, EXPENSE, FALSE, TRUE),
    Account("c1", <<"2", "0", "0", "0">>, NamePayable, LIABILITY, FALSE, TRUE) >>

\* the same accounts with codes that carry the AR / AP hint
HintChart == <<
    Account("c1", <<"4", "0", "0", "0">>, NameRevenue, REVENUE, FALSE, TRUE),
    Account("c1", <<"A", "R", "1", "2">>, NameReceivable, ASSET, FALSE, TRUE),
    Account("c1", <<"1", "0", "0", "0">>, NameCash, ASSET, TRUE, TRUE),
    Account("c1", <<"5", "0", "0", "0">>, NameExpense, EXPENSE, FALSE, TRUE),
    Account("c1", <<"A", "P", "2", "0">>, NamePayable, LIABILITY, FALSE, TRUE) >>

Charts == {TestChart, HintChart}

VARIABLES
    chart_of_accounts,  \* table chart_of_accounts
    journal_entries,    \* table journal_entries, each row with its journal_lines
    ar_invoices,        \* table ar_invoices
    ar_receipts,        \* table ar_receipts
    ap_bills,           \* table ap_bills
    ap_payments,        \* table ap_payments
    last,               \* the latest call and what it returned
    sessions            \* per database session: the posting call in progress

vars == <<chart_of_accounts, journal_entries, ar_invoices, ar_receipts,
          ap_bills, ap_payments, last, sessions>>

tables == <<chart_of_accounts, journal_entries, ar_invoices, ar_receipts,
            ap_bills, ap_payments>>

NoCall == [op |-> "none", id |-> NULL, ok |-> TRUE, journal_entry_id |-> NULL,
           already |-> FALSE]

\* db = SessionLocal(): one session per request; two requests may overlap
Sessions == {"s1", "s2"}
\* a column a session leaves alone is {}, a column it assigns v is {v}
Keep == {}
NoWrite == [target |-> NULL, balance_amount |-> Keep, status |-> Keep]
\* a session with no call in progress
Idle == [pc |-> "idle", op |-> "none", id |-> NULL, company_id |-> "",
         date |-> <<>>, lines |-> <<>>, entry |-> NULL, write |-> NoWrite]

Init ==
    /\ chart_of_accounts \in Charts
    /\ journal_entries = <<>>
    /\ ar_invoices = <<>>
    /\ ar_receipts = <<>>
    /\ ap_bills = <<>>
    /\ ap_payments = <<>>
    /\ last = NoCall
    /\ sessions = [s \in Sessions |-> Idle]


\* ---------------------------------------------------------------- gl_service
\* float(x) of a Decimal column value followed by Decimal(str(.)): the double
\* nearest to x/100 prints (shortest repr) as the same 2-digit decimal for
\* every x of at most 15 significant digits, which covers every amount of
\* the model; the value in cents is kept.
ToFloat(d) == d
DecimalOfStr(f) == f

AccountIds == DOMAIN chart_of_accounts

\* find_account_by_type_and_name with raise_on_multiple = True (the only way
\* it is called); account = NULL stands for None.
\* mutant: several matching accounts do not raise, one of them is returned
FindAccountByTypeAndNameMut(company_id, account_type, code_pattern, name_pattern) ==
    LET results == { a \in AccountIds :
                       /\ chart_of_accounts[a].company_id = company_id
                       /\ chart_of_accounts[a].account_type = account_type
                       /\ chart_of_accounts[a].is_active
                       /\ (code_pattern # NoPattern =>
                             ILike(chart_of_accounts[a].code, code_pattern))
                       /\ (name_pattern # NoPattern =>
                             ILike(chart_of_accounts[a].name, name_pattern)) }
    IN  IF results = {}
        THEN [raised |-> FALSE, account |-> NULL]
        ELSE [raised |-> FALSE, account |-> CHOOSE a \in results : TRUE]

FindAccountByTypeAndName(company_id, account_type, code_pattern, name_pattern) ==
    LET results == { a \in AccountIds :
                       /\ chart_of_accounts[a].company_id = company_id
                       /\ chart_of_accounts[a].account_type = account_type
                       /\ chart_of_accounts[a].is_active
                       /\ (code_pattern # NoPattern =>
                             ILike(chart_of_accounts[a].code, code_pattern))
                       /\ (name_pattern # NoPattern =>
                             ILike(chart_of_accounts[a].name, name_pattern)) }
    IN  IF Cardinality(results) > 1
        THEN [raised |-> TRUE, account |-> NULL]
        ELSE IF results = {}
             THEN [raised |-> FALSE, account |-> NULL]
             ELSE [raised |-> FALSE, account |-> CHOOSE a \in results : TRUE]

\* the lookup with patterns, retried without patterns when it finds nothing
FindWithFallback(company_id, account_type, code_pattern, name_pattern) ==
    LET first == FindAccountByTypeAndName(company_id, account_type,
                                          code_pattern, name_pattern)
    IN  IF first.raised \/ first.account # NULL
        THEN first
        ELSE FindAccountByTypeAndName(company_id, account_type,
                                      NoPattern, NoPattern)

\* db.query(ChartOfAccount).filter(company, is_cash, is_active).first():
\* no ORDER BY, so any matching row may come first
CashAccountCandidates(company_id) ==
    LET rows == { a \in AccountIds :
                    /\ chart_of_accounts[a].company_id = company_id
                    /\ chart_of_accounts[a].is_cash
                    /\ chart_of_accounts[a].is_active }
    IN  IF rows = {} THEN {NULL} ELSE rows

Line(account_id, debit, credit) ==
    [account_id |-> account_id, debit |-> debit, credit |-> credit]

NoSource == <<"none", 0>>

\* mutant: the credit total is taken from the debit column
TotalCreditMut(lines) == SumSeq([i \in DOMAIN lines |-> DecimalOfStr(lines[i].debit)])

TotalCredit(lines) == SumSeq([i \in DOMAIN lines |-> DecimalOfStr(lines[i].credit)])

\* mutant: the debit total is taken from the credit column
TotalDebitMut(lines) == TotalCredit(lines)

TotalDebit(lines) == SumSeq([i \in DOMAIN lines |-> DecimalOfStr(lines[i].debit)])

\* create_journal_entry: the outcome of the call on the current store.
\* ok = FALSE when it raises; then nothing of the call is committed.
CreateJournalEntryResult(company_id, entry_date, source_module, source_id, lines_list) ==
    LET balanced == TotalDebit(lines_list) = TotalCredit(lines_list)
        accounts_found ==
            \A i \in DOMAIN lines_list :
                /\ lines_list[i].account_id \in AccountIds
                /\ chart_of_accounts[lines_list[i].account_id].company_id = company_id
        \* CheckConstraint("debit >= 0"), CheckConstraint("credit >= 0")
        non_negative ==
            \A i \in DOMAIN lines_list :
                /\ DecimalOfStr(lines_list[i].debit) >= 0
                /\ DecimalOfStr(lines_list[i].credit) >= 0
        journal_entry ==
            [company_id |-> company_id, date |-> entry_date,
             source_module |-> source_module, source_id |-> source_id,
             status |-> POSTED,
             lines |-> [i \in DOMAIN lines_list |->
                          Line(lines_list[i].account_id,
                               DecimalOfStr(lines_list[i].debit),
                               DecimalOfStr(lines_list[i].credit))]]
    IN  IF balanced /\ accounts_found /\ non_negative
        THEN [ok |-> TRUE,
              entries |-> Append(journal_entries, journal_entry),
              id |-> Len(journal_entries) + 1]
        ELSE [ok |-> FALSE, entries |-> journal_entries, id |-> NULL]

\* what a call returned: ok = FALSE when it raised; already = TRUE when a
\* posting call took the "already has journal_entry_id" early return
Call(op, id, ok, journal_entry_id) ==
    [op |-> op, id |-> id, ok |-> ok, journal_entry_id |-> journal_entry_id,
     already |-> FALSE]
Repeated(op, id, journal_entry_id) ==
    [op |-> op, id |-> id, ok |-> TRUE, journal_entry_id |-> journal_entry_id,
     already |-> TRUE]

\* mutant: the early return for a posted document is never taken
AlreadyPostedMut(doc) == FALSE

\* "if doc.journal_entry_id:" - the document was posted before
AlreadyPosted(doc) == doc.journal_entry_id # NULL

\* ---------------------------------------------------------------- documents
NumDocs == Len(ar_invoices) + Len(ar_receipts) + Len(ap_bills) + Len(ap_payments)
\* amounts of receipts and payments: zero, the smallest unit, the largest
Amounts == {0, 1, MaxAmount}
\* totals of invoices and bills: the same and a negative total
TotalAmounts == {-1, 0, 1, MaxAmount}

\* POST /invoices
CreateInvoice(cap, company_id, invoice_date, total_amount) ==
    /\ NumDocs < cap
    /\ ar_invoices' = Append(ar_invoices,
          [company_id |-> company_id, invoice_date |-> invoice_date,
           status |-> DRAFT, total_amount |-> total_amount,
           balance_amount |-> total_amount, journal_entry_id |-> NULL])
    /\ last' = Call("create_invoice", Len(ar_invoices) + 1, TRUE, NULL)
    /\ UNCHANGED <<chart_of_accounts, journal_entries, ar_receipts, ap_bills, ap_payments>>

\* POST /receipts
CreateReceipt(cap, company_id, receipt_date, amount, invoice_id) ==
    /\ NumDocs < cap
    /\ ar_receipts' = Append(ar_receipts,
          [company_id |-> company_id, receipt_date |-> receipt_date,
           amount |-> amount, invoice_id |-> invoice_id,
           journal_entry_id |-> NULL])
    /\ last' = Call("create_receipt", Len(ar_receipts) + 1, TRUE, NULL)
    /\ UNCHANGED <<chart_of_accounts, journal_entries, ar_invoices, ap_bills, ap_payments>>

\* POST /bills
CreateBill(cap, company_id, bill_date, total_amount) ==
    /\ NumDocs < cap
    /\ ap_bills' = Append(ap_bills,
          [company_id |-> company_id, bill_date |-> bill_date,
           status |-> DRAFT, total_amount |-> total_amount,
           balance_amount |-> total_amount, journal_entry_id |-> NULL])
    /\ last' = Call("create_bill", Len(ap_bills) + 1, TRUE, NULL)
    /\ UNCHANGED <<chart_of_accounts, journal_entries, ar_invoices, ar_receipts, ap_payments>>

\* POST /payments
CreatePayment(cap, company_id, payment_date, amount, bill_id) ==
    /\ NumDocs < cap
    /\ ap_payments' = Append(ap_payments,
          [company_id |-> company_id, payment_date |-> payment_date,
           amount |-> amount, bill_id |-> bill_id,
           journal_entry_id |-> NULL])
    /\ last' = Call("create_payment", Len(ap_payments) + 1, TRUE, NULL)
    /\ UNCHANGED <<chart_of_accounts, journal_entries, ar_invoices, ar_receipts, ap_bills>>


\* ---------------------------------------------------------------- ar_service
\* status of an invoice right after its own posting
InvoiceStatusOnPost(balance_amount, total_amount) ==
    IF balance_amount < total_amount /\ balance_amount > 0
    THEN PARTIALLY_PAID
    ELSE SENT

\* mutant: a balance of exactly zero does not count as paid
InvoiceStatusOnReceiptMut(status, balance_amount, total_amount) ==
    IF balance_amount < 0
    THEN PAID
    ELSE IF balance_amount < total_amount THEN PARTIALLY_PAID ELSE status

\* status of an invoice after a linked receipt changed its balance
InvoiceStatusOnReceipt(status, balance_amount, total_amount) ==
    IF balance_amount <= 0
    THEN PAID
    ELSE IF balance_amount < total_amount THEN PARTIALLY_PAID ELSE status

\* mutant: the balance of the invoice is left as it was
ApplyReceiptMut(invoice, amount) ==
    [invoice EXCEPT
        !.status = InvoiceStatusOnReceipt(invoice.status, invoice.balance_amount,
                                          invoice.total_amount)]

\* invoice.balance_amount -= receipt.amount, then the status rule
ApplyReceipt(invoice, amount) ==
    LET balance == invoice.balance_amount - amount
    IN  [invoice EXCEPT
            !.balance_amount = balance,
            !.status = InvoiceStatusOnReceipt(invoice.status, balance,
                                              invoice.total_amount)]

InvoiceLines(ar_account, revenue_account, total_amount) ==
    << Line(ar_account, ToFloat(total_amount), ToFloat(0)),
       Line(revenue_account, ToFloat(0), ToFloat(total_amount)) >>

PostInvoice(invoice_id) ==
    LET found == invoice_id \in DOMAIN ar_invoices
        invoice == ar_invoices[invoice_id]
        ar == FindWithFallback(invoice.company_id, ASSET, PatAR, PatReceivable)
        revenue == FindAccountByTypeAndName(invoice.company_id, REVENUE,
                                            NoPattern, NoPattern)
        created == CreateJournalEntryResult(invoice.company_id,
                       invoice.invoice_date, AR, <<"invoice", invoice_id>>,
                       InvoiceLines(ar.account, revenue.account,
                                    invoice.total_amount))
    IN  IF ~found
        THEN /\ last' = Call("post_invoice", invoice_id, FALSE, NULL)
             /\ UNCHANGED tables
        ELSE IF AlreadyPosted(invoice)
        THEN /\ last' = Repeated("post_invoice", invoice_id, invoice.journal_entry_id)
             /\ UNCHANGED tables
        ELSE IF \/ ar.raised \/ ar.account = NULL
                \/ revenue.raised \/ revenue.account = NULL
                \/ ~created.ok
        THEN /\ last' = Call("post_invoice", invoice_id, FALSE, NULL)
             /\ UNCHANGED tables
        ELSE /\ journal_entries' = created.entries
             /\ ar_invoices' = [ar_invoices EXCEPT ![invoice_id] =
                    [invoice EXCEPT
                        !.journal_entry_id = created.id,
                        !.status = InvoiceStatusOnPost(invoice.balance_amount,
                                                       invoice.total_amount)]]
             /\ last' = Call("post_invoice", invoice_id, TRUE, created.id)
             /\ UNCHANGED <<chart_of_accounts, ar_receipts, ap_bills, ap_payments>>

ReceiptLines(cash_account, ar_account, amount) ==
    << Line(cash_account, ToFloat(amount), ToFloat(0)),
       Line(ar_account, ToFloat(0), ToFloat(amount)) >>

PostReceipt(receipt_id) ==
    LET found == receipt_id \in DOMAIN ar_receipts
        receipt == ar_receipts[receipt_id]
    IN  IF ~found
        THEN /\ last' = Call("post_receipt", receipt_id, FALSE, NULL)
             /\ UNCHANGED tables
        ELSE IF AlreadyPosted(receipt)
        THEN /\ last' = Repeated("post_receipt", receipt_id, receipt.journal_entry_id)
             /\ UNCHANGED tables
        ELSE \E cash_account \in CashAccountCandidates(receipt.company_id) :
             LET ar == FindWithFallback(receipt.company_id, ASSET,
                                        PatAR, PatReceivable)
                 created == CreateJournalEntryResult(receipt.company_id,
                                receipt.receipt_date, AR,
                                <<"receipt", receipt_id>>,
                                ReceiptLines(cash_account, ar.account,
                                             receipt.amount))
                 linked == /\ receipt.invoice_id # NULL
                           /\ receipt.invoice_id \in DOMAIN ar_invoices
             IN  IF \/ cash_account = NULL
                    \/ ar.raised \/ ar.account = NULL
                    \/ ~created.ok
                 THEN /\ last' = Call("post_receipt", receipt_id, FALSE, NULL)
                      /\ UNCHANGED tables
                 ELSE /\ journal_entries' = created.entries
                      /\ ar_receipts' = [ar_receipts EXCEPT
                             ![receipt_id].journal_entry_id = created.id]
                      /\ ar_invoices' =
                             IF linked
                             THEN [ar_invoices EXCEPT ![receipt.invoice_id] =
                                     ApplyReceipt(ar_invoices[receipt.invoice_id],
                                                  receipt.amount)]
                             ELSE ar_invoices
                      /\ last' = Call("post_receipt", receipt_id, TRUE, created.id)
                      /\ UNCHANGED <<chart_of_accounts, ap_bills, ap_payments>>

\* ---------------------------------------------------------------- ap_service
\* mutant: a bill paid in part keeps its status
BillStatusOnPaymentMut(status, balance_amount, total_amount) ==
    IF balance_amount <= 0 THEN PAID ELSE status

BillStatusOnPayment(status, balance_amount, total_amount) ==
    IF balance_amount <= 0
    THEN PAID
    ELSE IF balance_amount < total_amount THEN PARTIALLY_PAID ELSE status

\* bill.balance_amount -= payment.amount, then the status rule
ApplyPayment(bill, amount) ==
    LET balance == bill.balance_amount - amount
    IN  [bill EXCEPT
            !.balance_amount = balance,
            !.status = BillStatusOnPayment(bill.status, balance,
                                           bill.total_amount)]

\* mutant: the bill is credited to expense and debited to Accounts Payable
BillLinesMut(expense_account, ap_account, total_amount) ==
    << Line(expense_account, ToFloat(0), ToFloat(total_amount)),
       Line(ap_account, ToFloat(total_amount), ToFloat(0)) >>

BillLines(expense_account, ap_account, total_amount) ==
    << Line(expense_account, ToFloat(total_amount), ToFloat(0)),
       Line(ap_account, ToFloat(0), ToFloat(total_amount)) >>

PostBill(bill_id) ==
    LET found == bill_id \in DOMAIN ap_bills
        bill == ap_bills[bill_id]
        expense == FindAccountByTypeAndName(bill.company_id, EXPENSE,
                                            NoPattern, NoPattern)
        ap == FindWithFallback(bill.company_id, LIABILITY, PatAP, PatPayable)
        created == CreateJournalEntryResult(bill.company_id, bill.bill_date,
                       AP, <<"bill", bill_id>>,
                       BillLines(expense.account, ap.account, bill.total_amount))
    IN  IF ~found
        THEN /\ last' = Call("post_bill", bill_id, FALSE, NULL)
             /\ UNCHANGED tables
        ELSE IF AlreadyPosted(bill)
        THEN /\ last' = Repeated("post_bill", bill_id, bill.journal_entry_id)
             /\ UNCHANGED tables
        ELSE IF \/ expense.raised \/ expense.account = NULL
                \/ ap.raised \/ ap.account = NULL
                \/ ~created.ok
        THEN /\ last' = Call("post_bill", bill_id, FALSE, NULL)
             /\ UNCHANGED tables
        ELSE /\ journal_entries' = created.entries
             /\ ap_bills' = [ap_bills EXCEPT ![bill_id] =
                    [bill EXCEPT !.journal_entry_id = created.id,
                                 !.status = APPROVED]]
             /\ last' = Call("post_bill", bill_id, TRUE, created.id)
             /\ UNCHANGED <<chart_of_accounts, ar_invoices, ar_receipts, ap_payments>>

PaymentLines(ap_account, cash_account, amount) ==
    << Line(ap_account, ToFloat(amount), ToFloat(0)),
       Line(cash_account, ToFloat(0), ToFloat(amount)) >>

PostPayment(payment_id) ==
    LET found == payment_id \in DOMAIN ap_payments
        payment == ap_payments[payment_id]
    IN  IF ~found
        THEN /\ last' = Call("post_payment", payment_id, FALSE, NULL)
             /\ UNCHANGED tables
        ELSE IF AlreadyPosted(payment)
        THEN /\ last' = Repeated("post_payment", payment_id, payment.journal_entry_id)
             /\ UNCHANGED tables
        ELSE \E cash_account \in CashAccountCandidates(payment.company_id) :
             LET ap == FindWithFallback(payment.company_id, LIABILITY,
                                        PatAP, PatPayable)
                 created == CreateJournalEntryResult(payment.company_id,
                                payment.payment_date, AP,
                                <<"payment", payment_id>>,
                                PaymentLines(ap.account, cash_account,
                                             payment.amount))
                 linked == /\ payment.bill_id # NULL
                           /\ payment.bill_id \in DOMAIN ap_bills
             IN  IF \/ ap.raised \/ ap.account = NULL
                    \/ cash_account = NULL
                    \/ ~created.ok
                 THEN /\ last' = Call("post_payment", payment_id, FALSE, NULL)
                      /\ UNCHANGED tables
                 ELSE /\ journal_entries' = created.entries
                      /\ ap_payments' = [ap_payments EXCEPT
                             ![payment_id].journal_entry_id = created.id]
                      /\ ap_bills' =
                             IF linked
                             THEN [ap_bills EXCEPT ![payment.bill_id] =
                                     ApplyPayment(ap_bills[payment.bill_id],
                                                  payment.amount)]
                             ELSE ap_bills
                      /\ last' = Call("post_payment", payment_id, TRUE, created.id)
                      /\ UNCHANGED <<chart_of_accounts, ar_invoices, ar_receipts>>

\* ---------------------------------------------------------------- posting
\* links a receipt / payment may carry: none, or an existing document
InvoiceLinks == 0..Len(ar_invoices)
BillLinks == 0..Len(ap_bills)

\* The specifications below run every request to completion before the next
\* one starts: no call is ever in progress in a session between two steps.

\* every posting operation, called on existing and on unknown documents
Next ==
    \/ \E c \in DocCompanies, d \in DocDates, t \in TotalAmounts :
           CreateInvoice(MaxPostingDocs, c, d, t)
    \/ \E c \in DocCompanies, d \in SettleDates, a \in Amounts, i \in InvoiceLinks :
           CreateReceipt(MaxPostingDocs, c, d, a, i)
    \/ \E c \in DocCompanies, d \in DocDates, t \in TotalAmounts :
           CreateBill(MaxPostingDocs, c, d, t)
    \/ \E c \in DocCompanies, d \in SettleDates, a \in Amounts, b \in BillLinks :
           CreatePayment(MaxPostingDocs, c, d, a, b)
    \/ \E i \in 1..(Len(ar_invoices) + 1) : PostInvoice(i)
    \/ \E r \in 1..(Len(ar_receipts) + 1) : PostReceipt(r)
    \/ \E b \in 1..(Len(ap_bills) + 1) : PostBill(b)
    \/ \E p \in 1..(Len(ap_payments) + 1) : PostPayment(p)

Spec == Init /\ [][Next /\ UNCHANGED sessions]_vars

\* the AR subledger: invoices and the receipts applied to them
NextAR ==
    \/ \E c \in DocCompanies, d \in DocDates, t \in TotalAmounts :
           CreateInvoice(MaxDocs, c, d, t)
    \/ \E c \in DocCompanies, d \in SettleDates, a \in Amounts, i \in InvoiceLinks :
           CreateReceipt(MaxDocs, c, d, a, i)
    \/ \E i \in DOMAIN ar_invoices : PostInvoice(i)
    \/ \E r \in DOMAIN ar_receipts : PostReceipt(r)

SpecAR == Init /\ [][NextAR /\ UNCHANGED sessions]_vars

\* the AP subledger: bills and the payments applied to them
NextAP ==
    \/ \E c \in DocCompanies, d \in DocDates, t \in TotalAmounts :
           CreateBill(MaxDocs, c, d, t)
    \/ \E c \in DocCompanies, d \in SettleDates, a \in Amounts, b \in BillLinks :
           CreatePayment(MaxDocs, c, d, a, b)
    \/ \E b \in DOMAIN ap_bills : PostBill(b)
    \/ \E p \in DOMAIN ap_payments : PostPayment(p)

SpecAP == Init /\ [][NextAP /\ UNCHANGED sessions]_vars


\* ---------------------------------------------------------------- ledger
\* a direct call of create_journal_entry (source_module MANUAL, no source_id)
CreateJournalEntry(cap, company_id, entry_date, lines_list) ==
    LET created == CreateJournalEntryResult(company_id, entry_date, MANUAL,
                                            NoSource, lines_list)
    IN  /\ Cardinality({ e \in DOMAIN journal_entries :
                            journal_entries[e].source_module = MANUAL }) < cap
        /\ journal_entries' = created.entries
        /\ last' = Call("create_journal_entry", created.id, created.ok, created.id)
        /\ UNCHANGED <<chart_of_accounts, ar_invoices, ar_receipts, ap_bills,
                       ap_payments>>

\* lines handed to a direct call: debit x on one account, credit y on another
LineAmounts == 1..MaxLineAmount
TwoLines(a, b, x, y) == << Line(a, x, 0), Line(b, 0, y) >>

\* the posting operations together with direct calls of create_journal_entry
NextGL ==
    \/ \E c \in DocCompanies, d \in DocDates, a \in AccountIds :
       \E b \in AccountIds \ {a}, x \in LineAmounts, y \in 0..MaxLineAmount :
           CreateJournalEntry(MaxManual, c, d, TwoLines(a, b, x, y))
    \/ \E c \in DocCompanies, d \in DocDates, t \in TotalAmounts :
           CreateInvoice(MaxLedgerDocs, c, d, t)
    \/ \E c \in DocCompanies, d \in SettleDates, a \in Amounts, i \in InvoiceLinks :
           CreateReceipt(MaxLedgerDocs, c, d, a, i)
    \/ \E c \in DocCompanies, d \in DocDates, t \in TotalAmounts :
           CreateBill(MaxLedgerDocs, c, d, t)
    \/ \E c \in DocCompanies, d \in SettleDates, a \in Amounts, b \in BillLinks :
           CreatePayment(MaxLedgerDocs, c, d, a, b)
    \/ \E i \in DOMAIN ar_invoices : PostInvoice(i)
    \/ \E r \in DOMAIN ar_receipts : PostReceipt(r)
    \/ \E b \in DOMAIN ap_bills : PostBill(b)
    \/ \E p \in DOMAIN ap_payments : PostPayment(p)

SpecGL == Init /\ [][NextGL /\ UNCHANGED sessions]_vars

\* ---------------------------------------------------------------- reporting_service
\* the journal lines of the store, each named <<entry id, position>>
AllLines ==
    UNION { { <<e, k>> : k \in DOMAIN journal_entries[e].lines } :
            e \in DOMAIN journal_entries }

LineOf(l) == journal_entries[l[1]].lines[l[2]]
EntryOf(l) == journal_entries[l[1]]
\* JOIN chart_of_accounts ON journal_lines.account_id = chart_of_accounts.id
AccountOf(l) == chart_of_accounts[LineOf(l).account_id]

\* to_char(date, 'YYYY-MM'), 'YYYY' || '-Q' || to_char(date, 'Q'), to_char(date, 'YYYY')
PeriodOf(d, granularity) ==
    CASE granularity = "monthly" -> <<d[1], "-", d[2]>>
      [] granularity = "quarterly" -> <<d[1], "-Q", ((d[2] - 1) \div 3) + 1>>
      [] granularity = "yearly" -> <<d[1]>>
      [] OTHER -> <<d[1], "-", d[2]>>

\* the CASE of the P&L query: credit - debit for REVENUE, debit - credit for EXPENSE
PnlNet(l) ==
    CASE AccountOf(l).account_type = REVENUE -> LineOf(l).credit - LineOf(l).debit
      [] AccountOf(l).account_type = EXPENSE -> LineOf(l).debit - LineOf(l).credit
      [] OTHER -> 0

\* mutant: the expenses are added to the revenue
NetProfitMut(total_revenue, total_expenses) == total_revenue + total_expenses

NetProfit(total_revenue, total_expenses) == total_revenue - total_expenses

GetProfitAndLoss(company_id, date_from, date_to, granularity) ==
    LET rows == { l \in AllLines :
                    /\ EntryOf(l).company_id = company_id
                    /\ DateLE(date_from, EntryOf(l).date)
                    /\ DateLE(EntryOf(l).date, date_to)
                    /\ EntryOf(l).status = POSTED
                    /\ AccountOf(l).account_type \in {REVENUE, EXPENSE} }
        net == [l \in rows |-> PnlNet(l)]
        accts == { LineOf(l).account_id : l \in rows }
        periods_set == { PeriodOf(EntryOf(l).date, granularity) : l \in rows }
        \* GROUP BY account, period
        group(a, p) == { l \in rows :
                           /\ LineOf(l).account_id = a
                           /\ PeriodOf(EntryOf(l).date, granularity) = p }
        periods_of(a) == { p \in periods_set : group(a, p) # {} }
        net_amount(a, p) == DecimalOfStr(SumSet(net, group(a, p)))
        accounts_dict ==
            [a \in accts |->
               [type |-> chart_of_accounts[a].account_type,
                period_amounts |-> [p \in periods_of(a) |-> ToFloat(net_amount(a, p))],
                total |-> ToFloat(SumSet([p \in periods_of(a) |-> net_amount(a, p)],
                                         periods_of(a)))]]
        totals_of(type) ==
            SumSet([a \in accts |-> DecimalOfStr(accounts_dict[a].total)],
                   { a \in accts : accounts_dict[a].type = type })
        total_revenue == totals_of(REVENUE)
        total_expenses == totals_of(EXPENSE)
    IN  [op |-> "get_profit_and_loss",
         periods |-> periods_set,
         accounts |-> accounts_dict,
         totals |-> [revenue |-> ToFloat(total_revenue),
                     expenses |-> ToFloat(total_expenses),
                     net_profit |-> ToFloat(NetProfit(total_revenue, total_expenses))]]

\* mutant: every account is taken as credit - debit
BalanceOfLineMut(l) == LineOf(l).credit - LineOf(l).debit

\* the CASE of the balance-sheet query
BalanceOfLine(l) ==
    CASE AccountOf(l).account_type \in {ASSET, EXPENSE} ->
            LineOf(l).debit - LineOf(l).credit
      [] AccountOf(l).account_type \in {LIABILITY, EQUITY, REVENUE} ->
            LineOf(l).credit - LineOf(l).debit
      [] OTHER -> 0

GetBalanceSheet(company_id, as_of) ==
    LET rows == { l \in AllLines :
                    /\ EntryOf(l).company_id = company_id
                    /\ DateLE(EntryOf(l).date, as_of)
                    /\ EntryOf(l).status = POSTED }
        bal == [l \in rows |-> BalanceOfLine(l)]
        balance(a) == SumSet(bal, { l \in rows : LineOf(l).account_id = a })
        \* GROUP BY account HAVING sum(...) != 0
        results == { a \in { LineOf(l).account_id : l \in rows } : balance(a) # 0 }
        of_type(type) == { a \in results : chart_of_accounts[a].account_type = type }
        total(type) == SumSet([a \in results |-> DecimalOfStr(balance(a))], of_type(type))
        section(name, type) ==
            [name |-> name, total |-> ToFloat(total(type)),
             accounts |-> [a \in of_type(type) |-> ToFloat(balance(a))]]
        total_assets == total(ASSET)
        total_liabilities == total(LIABILITY)
        total_equity == total(EQUITY)
        liabilities_plus_equity == total_liabilities + total_equity
    IN  [op |-> "get_balance_sheet",
         as_of |-> as_of,
         sections |->
            (IF of_type(ASSET) # {} THEN {section("Assets", ASSET)} ELSE {}) \cup
            (IF of_type(LIABILITY) # {} THEN {section("Liabilities", LIABILITY)} ELSE {}) \cup
            (IF of_type(EQUITY) # {} THEN {section("Equity", EQUITY)} ELSE {}),
         check |-> [assets |-> ToFloat(total_assets),
                    liabilities_plus_equity |-> ToFloat(liabilities_plus_equity)]]

classify_account_for_cash_flow(account) ==
    IF account.account_type \in {REVENUE, EXPENSE} THEN "OPERATING"
    ELSE IF account.account_type = ASSET /\ ~account.is_cash THEN "INVESTING"
    ELSE IF account.account_type \in {LIABILITY, EQUITY} THEN "FINANCING"
    ELSE "OPERATING"

\* mutant: the opening balance is left out of the closing balance
ClosingCashMut(opening_cash, net_change) == net_change

ClosingCash(opening_cash, net_change) == opening_cash + net_change

\* mutant: the entries of the period whatever their status
EntriesInPeriodMut(company_id, date_from, date_to) ==
    { e \in DOMAIN journal_entries :
        /\ journal_entries[e].company_id = company_id
        /\ DateLE(date_from, journal_entries[e].date)
        /\ DateLE(journal_entries[e].date, date_to) }

\* entries_in_period: the POSTED entries of the company dated in the range
EntriesInPeriod(company_id, date_from, date_to) ==
    { e \in DOMAIN journal_entries :
        /\ journal_entries[e].company_id = company_id
        /\ DateLE(date_from, journal_entries[e].date)
        /\ DateLE(journal_entries[e].date, date_to)
        /\ journal_entries[e].status = POSTED }

CashLinesOf(e) == { l \in AllLines : l[1] = e /\ AccountOf(l).is_cash }
NonCashLinesOf(e) == { l \in AllLines : l[1] = e /\ ~AccountOf(l).is_cash }
CashDelta == [l \in AllLines |-> DecimalOfStr(LineOf(l).debit) - DecimalOfStr(LineOf(l).credit)]
\* mutant: the change is summed over all the lines of the entry
CashChangeMut(e) == SumSet(CashDelta, { l \in AllLines : l[1] = e })

CashChange(e) == SumSet(CashDelta, CashLinesOf(e))

\* the entries get_cash_flow categorises: those of the period with a cash
\* line and a non-zero cash change
CountedEntries(company_id, date_from, date_to) ==
    { e \in EntriesInPeriod(company_id, date_from, date_to) :
        CashLinesOf(e) # {} /\ CashChange(e) # 0 }

\* The query for the lines has no ORDER BY: any non-cash line of an entry may
\* be non_cash_lines[0].  A choice maps each entry to the line that comes
\* first, <<0, 0>> when the entry has no non-cash line.
RECURSIVE FirstNonCashChoices(_)
FirstNonCashChoices(entries) ==
    IF entries = {} THEN { <<>> }
    ELSE LET e == CHOOSE x \in entries : TRUE
             firsts == IF NonCashLinesOf(e) = {} THEN { <<0, 0>> }
                       ELSE NonCashLinesOf(e)
         IN  { (e :> l) @@ f : l \in firsts,
                               f \in FirstNonCashChoices(entries \ {e}) }

GetCashFlow(company_id, date_from, date_to, first_non_cash) ==
    LET opening_rows == { l \in AllLines :
                            /\ EntryOf(l).company_id = company_id
                            /\ DateLT(EntryOf(l).date, date_from)
                            /\ EntryOf(l).status = POSTED
                            /\ AccountOf(l).is_cash }
        opening_cash == DecimalOfStr(SumSet(CashDelta, opening_rows))
        counted == CountedEntries(company_id, date_from, date_to)
        category(e) ==
            IF NonCashLinesOf(e) = {} THEN "OPERATING"
            ELSE classify_account_for_cash_flow(AccountOf(first_non_cash[e]))
        inflows(cat) ==
            SumSet([e \in counted |-> CashChange(e)],
                   { e \in counted : category(e) = cat /\ CashChange(e) > 0 })
        outflows(cat) ==
            SumSet([e \in counted |-> Abs(CashChange(e))],
                   { e \in counted : category(e) = cat /\ ~(CashChange(e) > 0) })
        net(cat) == inflows(cat) - outflows(cat)
        net_change == net("OPERATING") + net("INVESTING") + net("FINANCING")
        closing_cash == ClosingCash(opening_cash, net_change)
    IN  [op |-> "get_cash_flow",
         opening_cash |-> ToFloat(opening_cash),
         closing_cash |-> ToFloat(closing_cash),
         categories |-> [cat \in {"OPERATING", "INVESTING", "FINANCING"} |->
                           [inflows |-> ToFloat(inflows(cat)),
                            outflows |-> ToFloat(outflows(cat)),
                            net |-> ToFloat(net(cat))]],
         net_change_in_cash |-> ToFloat(net_change)]

\* GET /pnl, GET /balance-sheet, GET /cash-flow: the report is the response
ProfitAndLossReport(company_id, date_from, date_to, granularity) ==
    /\ last' = GetProfitAndLoss(company_id, date_from, date_to, granularity)
    /\ UNCHANGED tables

BalanceSheetReport(company_id, as_of) ==
    /\ last' = GetBalanceSheet(company_id, as_of)
    /\ UNCHANGED tables

CashFlowReport(company_id, date_from, date_to) ==
    /\ \E first_non_cash \in
           FirstNonCashChoices(CountedEntries(company_id, date_from, date_to)) :
           last' = GetCashFlow(company_id, date_from, date_to, first_non_cash)
    /\ UNCHANGED tables

Granularities == {"monthly", "quarterly", "yearly"}

\* the chart of the reporting tests
SampleAccounts == <<
    Account("c1", <<"4", "0", "0", "0">>, NameRevenue, REVENUE, FALSE, TRUE),
    Account("c1", <<"5", "0", "0", "0">>, NameExpense, EXPENSE, FALSE, TRUE),
    Account("c1", <<"1", "0", "0", "0">>, NameCash, ASSET, TRUE, TRUE),
    Account("c1", <<"1", "1", "0", "0">>, NameReceivable, ASSET, FALSE, TRUE) >>

\* the ledger of the reporting tests, filled by direct calls of
\* create_journal_entry
InitReports ==
    /\ chart_of_accounts = SampleAccounts
    /\ journal_entries = <<>>
    /\ ar_invoices = <<>>
    /\ ar_receipts = <<>>
    /\ ap_bills = <<>>
    /\ ap_payments = <<>>
    /\ last = NoCall
    /\ sessions = [s \in Sessions |-> Idle]

NextReports ==
    \/ \E c \in DocCompanies, d \in Dates, a \in AccountIds :
       \E b \in AccountIds \ {a}, x \in LineAmounts, y \in 0..MaxLineAmount :
           CreateJournalEntry(MaxEntries, c, d, TwoLines(a, b, x, y))
    \/ \E c \in DocCompanies, f \in Dates, t \in Dates, g \in Granularities :
           ProfitAndLossReport(c, f, t, g)
    \/ \E c \in DocCompanies, d \in Dates : BalanceSheetReport(c, d)
    \/ \E c \in DocCompanies, f \in Dates, t \in Dates : CashFlowReport(c, f, t)

SpecReports == InitReports /\ [][NextReports /\ UNCHANGED sessions]_vars

\* ================================================================ properties
PostOps == {"post_invoice", "post_receipt", "post_bill", "post_payment"}

DocsOf(op) ==
    CASE op = "post_invoice" -> ar_invoices
      [] op = "post_receipt" -> ar_receipts
      [] op = "post_bill" -> ap_bills
      [] op = "post_payment" -> ap_payments

SourceOf(op, id) ==
    CASE op = "post_invoice" -> <<"invoice", id>>
      [] op = "post_receipt" -> <<"receipt", id>>
      [] op = "post_bill" -> <<"bill", id>>
      [] op = "post_payment" -> <<"payment", id>>

EntriesOf(source_id) ==
    { e \in DOMAIN journal_entries : journal_entries[e].source_id = source_id }

LineSet(entry) == { entry.lines[k] : k \in DOMAIN entry.lines }

ActiveAccounts(company_id, account_type, cash) ==
    { a \in AccountIds :
        /\ chart_of_accounts[a].company_id = company_id
        /\ chart_of_accounts[a].account_type = account_type
        /\ chart_of_accounts[a].is_cash = cash
        /\ chart_of_accounts[a].is_active }

TheOne(S) == CHOOSE a \in S : TRUE

\* ---------------------------------------------------------------- sessions
\* A posting call seen statement by statement, as another session sees it.
\* The store is PostgreSQL at its default isolation level: every statement
\* reads the latest committed rows, and a commit writes the columns the
\* session changed.  Steps of a call:
\*   BeginPosting   fetch the document, early return, resolve the accounts
\*   CommitEntry    create_journal_entry up to its db.commit()
\*   LoadSubledger  read the row whose status / balance the call derives
\*   CommitPosting  the final db.commit() of the posting function
\*   FailPosting    the database raises on a statement after the first commit

\* the accounts and lines a posting call derives from its document
PostingPlan(op, doc, cash_account) ==
    CASE op = "post_invoice" ->
           LET ar == FindWithFallback(doc.company_id, ASSET, PatAR, PatReceivable)
               revenue == FindAccountByTypeAndName(doc.company_id, REVENUE,
                                                   NoPattern, NoPattern)
           IN  [ok |-> ~(\/ ar.raised \/ ar.account = NULL
                         \/ revenue.raised \/ revenue.account = NULL),
                date |-> doc.invoice_date,
                lines |-> InvoiceLines(ar.account, revenue.account, doc.total_amount)]
      [] op = "post_receipt" ->
           LET ar == FindWithFallback(doc.company_id, ASSET, PatAR, PatReceivable)
           IN  [ok |-> ~(\/ cash_account = NULL \/ ar.raised \/ ar.account = NULL),
                date |-> doc.receipt_date,
                lines |-> ReceiptLines(cash_account, ar.account, doc.amount)]
      [] op = "post_bill" ->
           LET expense == FindAccountByTypeAndName(doc.company_id, EXPENSE,
                                                   NoPattern, NoPattern)
               ap == FindWithFallback(doc.company_id, LIABILITY, PatAP, PatPayable)
           IN  [ok |-> ~(\/ expense.raised \/ expense.account = NULL
                         \/ ap.raised \/ ap.account = NULL),
                date |-> doc.bill_date,
                lines |-> BillLines(expense.account, ap.account, doc.total_amount)]
      [] op = "post_payment" ->
           LET ap == FindWithFallback(doc.company_id, LIABILITY, PatAP, PatPayable)
           IN  [ok |-> ~(\/ ap.raised \/ ap.account = NULL \/ cash_account = NULL),
                date |-> doc.payment_date,
                lines |-> PaymentLines(ap.account, cash_account, doc.amount)]

\* journal entries of the concurrent specification, committed or about to be
MaxConcEntries == 3
EntriesInSight ==
    Len(journal_entries) + Cardinality({ x \in Sessions : sessions[x].pc = "begun" })

ModuleOf(op) == IF op \in {"post_invoice", "post_receipt"} THEN AR ELSE AP

\* the posting function up to the call of create_journal_entry
BeginPosting(s, op, id) ==
    LET doc == DocsOf(op)[id]
    IN  /\ sessions[s].pc = "idle"
        /\ id \in DOMAIN DocsOf(op)
        /\ EntriesInSight < MaxConcEntries
        /\ UNCHANGED tables
        /\ IF AlreadyPosted(doc)
           THEN /\ last' = Repeated(op, id, doc.journal_entry_id)
                /\ UNCHANGED sessions
           ELSE \E cash_account \in
                    (IF op \in {"post_receipt", "post_payment"}
                     THEN CashAccountCandidates(doc.company_id) ELSE {NULL}) :
                LET plan == PostingPlan(op, doc, cash_account)
                IN  IF ~plan.ok
                    THEN /\ last' = Call(op, id, FALSE, NULL)
                         /\ UNCHANGED sessions
                    ELSE /\ sessions' = [sessions EXCEPT ![s] =
                               [pc |-> "begun", op |-> op, id |-> id,
                                company_id |-> doc.company_id,
                                date |-> plan.date, lines |-> plan.lines,
                                entry |-> NULL, write |-> NoWrite]]
                         /\ UNCHANGED last

\* create_journal_entry: validation, inserts, db.commit() - the entry and its
\* lines become visible to every session
CommitEntry(s) ==
    LET call == sessions[s]
        created == CreateJournalEntryResult(call.company_id, call.date,
                       ModuleOf(call.op), SourceOf(call.op, call.id), call.lines)
    IN  /\ call.pc = "begun"
        /\ UNCHANGED <<chart_of_accounts, ar_invoices, ar_receipts, ap_bills,
                       ap_payments>>
        /\ IF created.ok
           THEN /\ journal_entries' = created.entries
                /\ sessions' = [sessions EXCEPT ![s].pc = "created",
                                                ![s].entry = created.id]
                /\ UNCHANGED last
           ELSE /\ UNCHANGED journal_entries
                /\ sessions' = [sessions EXCEPT ![s] = Idle]
                /\ last' = Call(call.op, call.id, FALSE, NULL)

\* the column values a session assigns, compared with the row it loaded: only
\* changed columns are part of the UPDATE
Changed(old, new) == IF new = old THEN Keep ELSE {new}

\* the read between the two commits and the assignments that follow it
SubledgerWrite(op, id) ==
    CASE op = "post_invoice" ->
           LET invoice == ar_invoices[id]
           IN  [target |-> id, balance_amount |-> Keep,
                status |-> Changed(invoice.status,
                                   InvoiceStatusOnPost(invoice.balance_amount,
                                                       invoice.total_amount))]
      [] op = "post_bill" ->
           \* bill.status is assigned without being read
           [target |-> id, balance_amount |-> Keep, status |-> {APPROVED}]
      [] op = "post_receipt" ->
           LET i == ar_receipts[id].invoice_id
           IN  IF i = NULL \/ i \notin DOMAIN ar_invoices THEN NoWrite
               ELSE LET new == ApplyReceipt(ar_invoices[i], ar_receipts[id].amount)
                    IN  [target |-> i,
                         balance_amount |-> Changed(ar_invoices[i].balance_amount,
                                                    new.balance_amount),
                         status |-> Changed(ar_invoices[i].status, new.status)]
      [] op = "post_payment" ->
           LET b == ap_payments[id].bill_id
           IN  IF b = NULL \/ b \notin DOMAIN ap_bills THEN NoWrite
               ELSE LET new == ApplyPayment(ap_bills[b], ap_payments[id].amount)
                    IN  [target |-> b,
                         balance_amount |-> Changed(ap_bills[b].balance_amount,
                                                    new.balance_amount),
                         status |-> Changed(ap_bills[b].status, new.status)]

LoadSubledger(s) ==
    /\ sessions[s].pc = "created"
    /\ sessions' = [sessions EXCEPT
                      ![s].pc = "loaded",
                      ![s].write = SubledgerWrite(sessions[s].op, sessions[s].id)]
    /\ UNCHANGED <<tables, last>>

\* the UPDATE of one row at commit
ApplyWrite(row, write) ==
    [row EXCEPT
        !.balance_amount = IF write.balance_amount = Keep THEN @
                           ELSE TheOne(write.balance_amount),
        !.status = IF write.status = Keep THEN @ ELSE TheOne(write.status)]

\* the final db.commit() of the posting function: journal_entry_id of the
\* document and the subledger columns the session changed
CommitPosting(s) ==
    LET call == sessions[s]
        w == call.write
    IN  /\ call.pc = "loaded"
        /\ CASE call.op = "post_invoice" ->
                  /\ ar_invoices' = [ar_invoices EXCEPT ![call.id] =
                         [ApplyWrite(@, w) EXCEPT !.journal_entry_id = call.entry]]
                  /\ UNCHANGED <<ar_receipts, ap_bills, ap_payments>>
             [] call.op = "post_receipt" ->
                  /\ ar_receipts' = [ar_receipts EXCEPT
                         ![call.id].journal_entry_id = call.entry]
                  /\ ar_invoices' =
                         IF w.target = NULL THEN ar_invoices
                         ELSE [ar_invoices EXCEPT ![w.target] = ApplyWrite(@, w)]
                  /\ UNCHANGED <<ap_bills, ap_payments>>
             [] call.op = "post_bill" ->
                  /\ ap_bills' = [ap_bills EXCEPT ![call.id] =
                         [ApplyWrite(@, w) EXCEPT !.journal_entry_id = call.entry]]
                  /\ UNCHANGED <<ar_invoices, ar_receipts, ap_payments>>
             [] call.op = "post_payment" ->
                  /\ ap_payments' = [ap_payments EXCEPT
                         ![call.id].journal_entry_id = call.entry]
                  /\ ap_bills' =
                         IF w.target = NULL THEN ap_bills
                         ELSE [ap_bills EXCEPT ![w.target] = ApplyWrite(@, w)]
                  /\ UNCHANGED <<ar_invoices, ar_receipts>>
        /\ sessions' = [sessions EXCEPT ![s] = Idle]
        /\ last' = Call(call.op, call.id, TRUE, call.entry)
        /\ UNCHANGED <<chart_of_accounts, journal_entries>>

\* a statement after the entry was committed raises (connection lost,
\* statement timeout, server restart): the endpoint answers 500, the session
\* is closed and what it had not committed is gone
FailPosting(s) ==
    /\ sessions[s].pc \in {"created", "loaded"}
    /\ sessions' = [sessions EXCEPT ![s] = Idle]
    /\ last' = Call(sessions[s].op, sessions[s].id, FALSE, NULL)
    /\ UNCHANGED tables


\* documents of the overlapping calls: invoices and bills of the largest
\* total, receipts and payments applied to one of them
ConcTotals == {MaxAmount}
ConcAmounts == {1, MaxAmount}

\* overlapping posting requests in two sessions
NextConc ==
    \/ \E c \in DocCompanies, d \in DocDates, t \in ConcTotals :
           CreateInvoice(MaxConcDocs, c, d, t) /\ UNCHANGED sessions
    \/ \E c \in DocCompanies, d \in SettleDates, a \in ConcAmounts :
       \E i \in DOMAIN ar_invoices :
           CreateReceipt(MaxConcDocs, c, d, a, i) /\ UNCHANGED sessions
    \/ \E c \in DocCompanies, d \in DocDates, t \in ConcTotals :
           CreateBill(MaxConcDocs, c, d, t) /\ UNCHANGED sessions
    \/ \E c \in DocCompanies, d \in SettleDates, a \in ConcAmounts :
       \E b \in DOMAIN ap_bills :
           CreatePayment(MaxConcDocs, c, d, a, b) /\ UNCHANGED sessions
    \/ \E s \in Sessions, op \in PostOps :
       \E id \in DOMAIN DocsOf(op) : BeginPosting(s, op, id)
    \/ \E s \in Sessions : CommitEntry(s)
    \/ \E s \in Sessions : LoadSubledger(s)
    \/ \E s \in Sessions : CommitPosting(s)

SpecConc == Init /\ [][NextConc]_vars

\* overlapping posting requests, any of which the database may fail
NextFault ==
    \/ NextConc
    \/ \E s \in Sessions : FailPosting(s)

SpecFault == Init /\ [][NextFault]_vars

\* ---------------------------------------------------------------- charts of accounts
\* accounts a company may have set up: each kind once with and once without
\* the code hint, a second revenue, expense and cash account, and a revenue
\* account that was deactivated
AccountPool == <<
    Account("c1", <<"4", "0", "0", "0">>, NameRevenue, REVENUE, FALSE, TRUE),
    Account("c1", <<"4", "1", "0", "0">>, NameRevenue, REVENUE, FALSE, TRUE),
    Account("c1", <<"4", "2", "0", "0">>, NameRevenue, REVENUE, FALSE, FALSE),
    Account("c1", <<"A", "R", "1", "2">>, NameReceivable, ASSET, FALSE, TRUE),
    Account("c1", <<"1", "2", "0", "0">>, NameReceivable, ASSET, FALSE, TRUE),
    Account("c1", <<"1", "0", "0", "0">>, NameCash, ASSET, TRUE, TRUE),
    Account("c1", <<"1", "0", "1", "0">>, NameCash, ASSET, TRUE, TRUE),
    Account("c1", <<"5", "0", "0", "0">>, NameExpense, EXPENSE, FALSE, TRUE),
    Account("c1", <<"5", "1", "0", "0">>, NameExpense, EXPENSE, FALSE, TRUE),
    Account("c1", <<"A", "P", "2", "0">>, NamePayable, LIABILITY, FALSE, TRUE),
    Account("c1", <<"2", "0", "0", "0">>, NamePayable, LIABILITY, FALSE, TRUE) >>

\* the chart made of the pool accounts at the positions S, in pool order
ChartOf(S) ==
    LET F[k \in 0..Len(AccountPool)] ==
            IF k = 0 THEN <<>>
            ELSE IF k \in S THEN Append(F[k - 1], AccountPool[k]) ELSE F[k - 1]
    IN  F[Len(AccountPool)]

PoolCharts == { ChartOf(S) : S \in SUBSET (1..Len(AccountPool)) }

InitResolve ==
    /\ chart_of_accounts \in PoolCharts
    /\ journal_entries = <<>>
    /\ ar_invoices = <<>>
    /\ ar_receipts = <<>>
    /\ ap_bills = <<>>
    /\ ap_payments = <<>>
    /\ last = NoCall
    /\ sessions = [s \in Sessions |-> Idle]

\* the four posting operations on any chart made from the pool
NextResolve ==
    \/ \E c \in DocCompanies, d \in DocDates, t \in ConcTotals :
           CreateInvoice(MaxResolveDocs, c, d, t)
    \/ \E c \in DocCompanies, d \in SettleDates, a \in ConcAmounts, i \in InvoiceLinks :
           CreateReceipt(MaxResolveDocs, c, d, a, i)
    \/ \E c \in DocCompanies, d \in DocDates, t \in ConcTotals :
           CreateBill(MaxResolveDocs, c, d, t)
    \/ \E c \in DocCompanies, d \in SettleDates, a \in ConcAmounts, b \in BillLinks :
           CreatePayment(MaxResolveDocs, c, d, a, b)
    \/ \E i \in DOMAIN ar_invoices : PostInvoice(i)
    \/ \E r \in DOMAIN ar_receipts : PostReceipt(r)
    \/ \E b \in DOMAIN ap_bills : PostBill(b)
    \/ \E p \in DOMAIN ap_payments : PostPayment(p)

SpecResolve == InitResolve /\ [][NextResolve /\ UNCHANGED sessions]_vars

\* ---------------------------------------------------------------- C2
\* A posting call that returned an id returned the id stored on its document,
\* and exactly one journal entry, of exactly two lines, carries that
\* document as source_id.
C2_OneEntry ==
    (last.op \in PostOps /\ last.ok) =>
        /\ DocsOf(last.op)[last.id].journal_entry_id = last.journal_entry_id
        /\ EntriesOf(SourceOf(last.op, last.id)) = {last.journal_entry_id}
        /\ Len(journal_entries[last.journal_entry_id].lines) = 2

\* A posting call that directly follows a posting call of the same document
\* that returned an id returns that id and changes no row of any table.
C2_SecondCall ==
    (/\ last.op \in PostOps /\ last.ok
     /\ last'.op = last.op /\ last'.id = last.id)
    => (/\ last'.ok
        /\ last'.journal_entry_id = last.journal_entry_id
        /\ UNCHANGED tables)

PostedReceiptsOf(i) ==
    { r \in DOMAIN ar_receipts :
        /\ ar_receipts[r].invoice_id = i
        /\ ar_receipts[r].journal_entry_id # NULL }

ReceiptAmounts == [r \in DOMAIN ar_receipts |-> ar_receipts[r].amount]

\* the invoice was posted, and every receipt applied to it was posted later
\* (journal entries are numbered in the order they are created)
PostedBeforeItsReceipts(i) ==
    /\ ar_invoices[i].journal_entry_id # NULL
    /\ \A r \in PostedReceiptsOf(i) :
           ar_receipts[r].journal_entry_id > ar_invoices[i].journal_entry_id

\* C3: for an invoice of total T posted with balance T, one posted receipt of
\* amount T leaves balance 0 and status PAID; two posted receipts, each > 0,
\* summing to less than T leave status PARTIALLY_PAID and balance T - sum.
C3_ReceiptsSettleInvoice ==
    \A i \in DOMAIN ar_invoices :
        PostedBeforeItsReceipts(i) =>
            LET T == ar_invoices[i].total_amount
                S == PostedReceiptsOf(i)
                paid == SumSet(ReceiptAmounts, S)
            IN  /\ (Cardinality(S) = 1 /\ paid = T) =>
                      /\ ar_invoices[i].balance_amount = 0
                      /\ ar_invoices[i].status = PAID
                /\ (/\ Cardinality(S) = 2
                    /\ \A r \in S : ar_receipts[r].amount > 0
                    /\ paid < T) =>
                      /\ ar_invoices[i].status = PARTIALLY_PAID
                      /\ ar_invoices[i].balance_amount = T - paid

\* an invoice with two posted partial receipts that do not settle it
C3_Witness ==
    \E i \in DOMAIN ar_invoices :
        /\ PostedBeforeItsReceipts(i)
        /\ Cardinality(PostedReceiptsOf(i)) = 2
        /\ \A r \in PostedReceiptsOf(i) : ar_receipts[r].amount > 0
        /\ SumSet(ReceiptAmounts, PostedReceiptsOf(i)) < ar_invoices[i].total_amount
        /\ ar_invoices[i].status = PARTIALLY_PAID

\* ---------------------------------------------------------------- C7
\* the chart the AR tests set up: one revenue account, one non-cash asset
\* account named Accounts Receivable, one cash asset account
ARTestChart(company_id) ==
    /\ Cardinality(ActiveAccounts(company_id, REVENUE, FALSE)) = 1
    /\ Cardinality(ActiveAccounts(company_id, ASSET, FALSE)) = 1
    /\ \A a \in ActiveAccounts(company_id, ASSET, FALSE) :
           ILike(chart_of_accounts[a].name, PatReceivable)
    /\ Cardinality(ActiveAccounts(company_id, ASSET, TRUE)) = 1

C7_Step(i) ==
    LET invoice == ar_invoices[i]
        T == invoice.total_amount
        c == invoice.company_id
        new == Len(journal_entries) + 1
    IN  (/\ last'.op = "post_invoice" /\ last'.id = i
         /\ invoice.journal_entry_id = NULL
         /\ invoice.status = DRAFT
         /\ invoice.balance_amount = T /\ T > 0
         /\ ARTestChart(c))
        => (/\ last'.ok /\ last'.journal_entry_id = new
            /\ Len(journal_entries') = new
            /\ journal_entries'[new].status = POSTED
            /\ journal_entries'[new].source_module = AR
            /\ journal_entries'[new].source_id = <<"invoice", i>>
            /\ journal_entries'[new].date = invoice.invoice_date
            /\ Len(journal_entries'[new].lines) = 2
            /\ LineSet(journal_entries'[new]) =
                 { Line(TheOne(ActiveAccounts(c, ASSET, FALSE)), T, 0),
                   Line(TheOne(ActiveAccounts(c, REVENUE, FALSE)), 0, T) }
            /\ ar_invoices'[i].journal_entry_id = new
            /\ ar_invoices'[i].status = SENT)

\* C7: on the chart the tests set up, post_invoice on an unposted DRAFT invoice
\* with total_amount = balance_amount = T succeeds and creates one POSTED
\* entry (AR, source_id = invoice, date = invoice date) of two lines, debit T
\* on Accounts Receivable and credit T on revenue; the invoice gets that
\* journal_entry_id and status SENT.
C7_PostInvoiceOnTestChart ==
    [][\A i \in DOMAIN ar_invoices : C7_Step(i)]_vars

\* ---------------------------------------------------------------- C8
C8_Step(r) ==
    LET receipt == ar_receipts[r]
        A == receipt.amount
        c == receipt.company_id
        new == Len(journal_entries) + 1
    IN  (/\ last'.op = "post_receipt" /\ last'.id = r
         /\ receipt.journal_entry_id = NULL
         /\ A > 0
         /\ Cardinality(ActiveAccounts(c, ASSET, TRUE)) = 1
         /\ Cardinality(ActiveAccounts(c, ASSET, FALSE)) = 1
         /\ \A a \in ActiveAccounts(c, ASSET, FALSE) :
                ILike(chart_of_accounts[a].name, PatReceivable))
        => (/\ last'.ok /\ last'.journal_entry_id = new
            /\ Len(journal_entries') = new
            /\ journal_entries'[new].source_module = AR
            /\ journal_entries'[new].source_id = <<"receipt", r>>
            /\ Len(journal_entries'[new].lines) = 2
            /\ LineSet(journal_entries'[new]) =
                 { Line(TheOne(ActiveAccounts(c, ASSET, TRUE)), A, 0),
                   Line(TheOne(ActiveAccounts(c, ASSET, FALSE)), 0, A) }
            /\ ar_receipts'[r].journal_entry_id = new)

\* C8: on the chart the tests set up (one cash asset account, one non-cash
\* asset account that is Accounts Receivable), post_receipt on an unposted
\* receipt of amount A succeeds and creates one entry (AR, source_id =
\* receipt) of two lines, debit A on cash and credit A on Accounts
\* Receivable, and sets receipt.journal_entry_id to it.
C8_PostReceiptOnTestChart ==
    [][\A r \in DOMAIN ar_receipts : C8_Step(r)]_vars

\* ---------------------------------------------------------------- C9
C9_Step(b) ==
    LET bill == ap_bills[b]
        T == bill.total_amount
        c == bill.company_id
        new == Len(journal_entries) + 1
    IN  (/\ last'.op = "post_bill" /\ last'.id = b
         /\ bill.journal_entry_id = NULL
         /\ T >= 0
         /\ Cardinality(ActiveAccounts(c, EXPENSE, FALSE)) = 1
         /\ Cardinality(ActiveAccounts(c, LIABILITY, FALSE)) = 1)
        => (/\ last'.ok /\ last'.journal_entry_id = new
            /\ Len(journal_entries') = new
            /\ journal_entries'[new].status = POSTED
            /\ journal_entries'[new].source_module = AP
            /\ journal_entries'[new].source_id = <<"bill", b>>
            /\ journal_entries'[new].date = bill.bill_date
            /\ journal_entries'[new].lines =
                 << Line(TheOne(ActiveAccounts(c, EXPENSE, FALSE)), T, 0),
                    Line(TheOne(ActiveAccounts(c, LIABILITY, FALSE)), 0, T) >>
            /\ ap_bills'[b].journal_entry_id = new
            /\ ap_bills'[b].status = APPROVED)

\* C9: for a company with one active expense account and one active Accounts
\* Payable liability account, post_bill on an unposted bill of total T (T not
\* negative) creates one POSTED entry (AP, source_id = bill, date = bill
\* date) of two lines, debit T on expense and credit T on Accounts Payable;
\* the bill gets that journal_entry_id and status APPROVED.
C9_PostBill ==
    [][\A b \in DOMAIN ap_bills : C9_Step(b)]_vars

\* a bill of positive total was posted by the latest call
C9_Witness ==
    /\ last.op = "post_bill" /\ last.ok /\ ~last.already
    /\ ap_bills[last.id].total_amount > 0
    /\ ap_bills[last.id].status = APPROVED
    /\ ap_bills[last.id].journal_entry_id = last.journal_entry_id

\* ---------------------------------------------------------------- C10
C10_Step(p) ==
    LET payment == ap_payments[p]
        A == payment.amount
        c == payment.company_id
        bill == ap_bills[payment.bill_id]
        balance == bill.balance_amount - A
        new == Len(journal_entries) + 1
    IN  (/\ last'.op = "post_payment" /\ last'.id = p
         /\ payment.journal_entry_id = NULL
         /\ payment.bill_id \in DOMAIN ap_bills
         /\ A >= 0
         /\ Cardinality(ActiveAccounts(c, LIABILITY, FALSE)) = 1
         /\ Cardinality(ActiveAccounts(c, ASSET, TRUE)) = 1)
        => (/\ last'.ok /\ last'.journal_entry_id = new
            /\ Len(journal_entries') = new
            /\ journal_entries'[new].source_module = AP
            /\ journal_entries'[new].source_id = <<"payment", p>>
            /\ journal_entries'[new].lines =
                 << Line(TheOne(ActiveAccounts(c, LIABILITY, FALSE)), A, 0),
                    Line(TheOne(ActiveAccounts(c, ASSET, TRUE)), 0, A) >>
            /\ ap_bills'[payment.bill_id].balance_amount = balance
            /\ ap_bills'[payment.bill_id].status =
                 IF balance <= 0 THEN PAID
                 ELSE IF balance < bill.total_amount THEN PARTIALLY_PAID
                 ELSE bill.status
            /\ (bill.status = APPROVED /\ bill.balance_amount = bill.total_amount
                /\ A = bill.total_amount)
               => (/\ ap_bills'[payment.bill_id].balance_amount = 0
                   /\ ap_bills'[payment.bill_id].status = PAID))

\* C10: post_payment on an unposted payment of amount A linked to a bill
\* creates one entry (AP, source_id = payment) with lines debit A on Accounts
\* Payable and credit A on cash, decrements the bill's balance_amount by A and
\* sets its status to PAID when the new balance is <= 0, to PARTIALLY_PAID
\* when 0 < new balance < total_amount, and leaves it unchanged otherwise; a
\* payment of the full total of an APPROVED bill leaves balance 0, status PAID.
C10_PostPayment ==
    [][\A p \in DOMAIN ap_payments : C10_Step(p)]_vars

\* the latest call paid an approved bill in part
C10_Witness ==
    /\ last.op = "post_payment" /\ last.ok /\ ~last.already
    /\ ap_payments[last.id].bill_id \in DOMAIN ap_bills
    /\ ap_payments[last.id].amount > 0
    /\ LET bill == ap_bills[ap_payments[last.id].bill_id]
       IN  /\ bill.journal_entry_id # NULL
           /\ bill.journal_entry_id < last.journal_entry_id
           /\ bill.status = PARTIALLY_PAID
           /\ bill.balance_amount = bill.total_amount - ap_payments[last.id].amount


\* ---------------------------------------------------------------- C1
EntryDebit(entry) == SumSeq([k \in DOMAIN entry.lines |-> entry.lines[k].debit])
EntryCredit(entry) == SumSeq([k \in DOMAIN entry.lines |-> entry.lines[k].credit])

\* C1: after any sequence of create_journal_entry, post_invoice, post_receipt,
\* post_bill and post_payment calls, every POSTED JournalEntry has the sum of
\* debit over its lines equal to the sum of credit over its lines.
C1_PostedBalanced ==
    \A e \in DOMAIN journal_entries :
        journal_entries[e].status = POSTED =>
            EntryDebit(journal_entries[e]) = EntryCredit(journal_entries[e])

\* a direct call with debit # credit was refused while the ledger holds an
\* entry made by a posting operation
C1_Witness ==
    /\ last.op = "create_journal_entry" /\ ~last.ok
    /\ \E e \in DOMAIN journal_entries :
          /\ journal_entries[e].source_module \in {AR, AP}
          /\ EntryDebit(journal_entries[e]) > 0

\* ---------------------------------------------------------------- reports
Categories == {"OPERATING", "INVESTING", "FINANCING"}

\* C4: for any set of balanced POSTED entries, also ones touching REVENUE or
\* EXPENSE accounts, and any as_of date, get_balance_sheet returns
\* check.assets equal to check.liabilities_plus_equity.
C4_BalanceSheetCheck ==
    last.op = "get_balance_sheet" =>
        last.check.assets = last.check.liabilities_plus_equity

PostedPaymentsOf(b) ==
    { p \in DOMAIN ap_payments :
        /\ ap_payments[p].bill_id = b
        /\ ap_payments[p].journal_entry_id # NULL }

\* C11: after any sequence of create and post operations, with any number of
\* receipts (payments) of positive amounts applied to a document, every
\* invoice and every bill has 0 <= balance_amount <= total_amount.
C11_BalanceWithinTotal ==
    /\ \A i \in DOMAIN ar_invoices :
         (/\ ar_invoices[i].total_amount >= 0
          /\ \A r \in PostedReceiptsOf(i) : ar_receipts[r].amount > 0)
         => /\ 0 <= ar_invoices[i].balance_amount
            /\ ar_invoices[i].balance_amount <= ar_invoices[i].total_amount
    /\ \A b \in DOMAIN ap_bills :
         (/\ ap_bills[b].total_amount >= 0
          /\ \A p \in PostedPaymentsOf(b) : ap_payments[p].amount > 0)
         => /\ 0 <= ap_bills[b].balance_amount
            /\ ap_bills[b].balance_amount <= ap_bills[b].total_amount

\* ---------------------------------------------------------------- C12
\* DRAFT < SENT < PARTIALLY_PAID < PAID and DRAFT < APPROVED < PARTIALLY_PAID < PAID
StatusRank(status) ==
    CASE status = DRAFT -> 0
      [] status \in {SENT, APPROVED} -> 1
      [] status = PARTIALLY_PAID -> 2
      [] status = PAID -> 3
      [] OTHER -> 4

\* C12: under any order of posting calls, receipts (payments) posted before
\* their invoice (bill) included, no posting operation moves an invoice or a
\* bill (of a positive total) that is PARTIALLY_PAID or PAID to an earlier
\* status.
C12_StatusNeverMovesBack ==
    [][/\ \A i \in DOMAIN ar_invoices :
            (ar_invoices[i].total_amount > 0
             /\ ar_invoices[i].status \in {PARTIALLY_PAID, PAID}) =>
                StatusRank(ar_invoices'[i].status) >= StatusRank(ar_invoices[i].status)
       /\ \A b \in DOMAIN ap_bills :
            (ap_bills[b].total_amount > 0
             /\ ap_bills[b].status \in {PARTIALLY_PAID, PAID}) =>
                StatusRank(ap_bills'[b].status) >= StatusRank(ap_bills[b].status)]_vars

\* ---------------------------------------------------------------- C13
PaymentAmounts == [p \in DOMAIN ap_payments |-> ap_payments[p].amount]

NoCallInProgress == \A s \in Sessions : sessions[s].pc = "idle"

\* every posted receipt (payment) of the document was posted by one call only
PostedOnce(kind, docs) ==
    \A d \in docs : Cardinality(EntriesOf(<<kind, d>>)) = 1

\* C13: once overlapping post_receipt calls for different receipts of one
\* invoice have completed, the balance of the invoice is its total minus the
\* amounts of all of them - no decrement is lost; the same for post_payment
\* calls and the balance of a bill.
C13_NoLostDecrement ==
    NoCallInProgress =>
        /\ \A i \in DOMAIN ar_invoices :
             PostedOnce("receipt", PostedReceiptsOf(i)) =>
                 ar_invoices[i].balance_amount =
                     ar_invoices[i].total_amount
                     - SumSet(ReceiptAmounts, PostedReceiptsOf(i))
        /\ \A b \in DOMAIN ap_bills :
             PostedOnce("payment", PostedPaymentsOf(b)) =>
                 ap_bills[b].balance_amount =
                     ap_bills[b].total_amount
                     - SumSet(PaymentAmounts, PostedPaymentsOf(b))

\* ---------------------------------------------------------------- C14
\* the documents of a posting operation with their source ids
PostedSources ==
    { <<op, id>> \in PostOps \X (1..MaxConcDocs + 1) : id \in DOMAIN DocsOf(op) }

C14_OneEntryPerDocument ==
    \A x \in PostedSources : Cardinality(EntriesOf(SourceOf(x[1], x[2]))) <= 1

C14_AssignedOnce ==
    \A x \in PostedSources :
        DocsOf(x[1])[x[2]].journal_entry_id # NULL =>
            DocsOf(x[1])'[x[2]].journal_entry_id = DocsOf(x[1])[x[2]].journal_entry_id

\* C14: under any interleaving of overlapping posting calls on one document,
\* at most one journal entry ever has that document as source_id, and the
\* journal_entry_id of the document, once assigned, is never replaced.
C14_PostedAtMostOnce == [](C14_OneEntryPerDocument) /\ [][C14_AssignedOnce]_vars

\* ---------------------------------------------------------------- C15
\* C15: in no committed state does a POSTED journal entry with source_id = d
\* exist while document d has no journal_entry_id.
C15_EntryAndDocumentTogether ==
    \A x \in PostedSources :
        (\E e \in EntriesOf(SourceOf(x[1], x[2])) : journal_entries[e].status = POSTED)
        => DocsOf(x[1])[x[2]].journal_entry_id # NULL

\* ---------------------------------------------------------------- C16
\* the step with which the call of session s returns an error
Fails(s) ==
    /\ sessions[s].pc # "idle"
    /\ sessions'[s].pc = "idle"
    /\ last'.op = sessions[s].op /\ last'.id = sessions[s].id /\ ~last'.ok

\* C16: when a posting call fails at any step, nothing of it is persisted:
\* the failing step writes no row, and no journal entry the call created
\* remains in the store.
C16_FailureLeavesNothing ==
    [][\A s \in Sessions :
         Fails(s) => /\ UNCHANGED tables
                     /\ sessions[s].entry \notin DOMAIN journal_entries']_vars

\* ---------------------------------------------------------------- C19
\* C19: over the whole history each posted receipt (payment) has reduced the
\* balance of its invoice (bill) by its amount at most once, however often
\* post_receipt (post_payment) was called for it.
C19_DecrementOnce ==
    /\ \A i \in DOMAIN ar_invoices :
         ar_invoices[i].balance_amount >=
             ar_invoices[i].total_amount - SumSet(ReceiptAmounts, PostedReceiptsOf(i))
    /\ \A b \in DOMAIN ap_bills :
         ap_bills[b].balance_amount >=
             ap_bills[b].total_amount - SumSet(PaymentAmounts, PostedPaymentsOf(b))

\* ---------------------------------------------------------------- C17
\* a direct call of create_journal_entry with debit x on one account and
\* credit y # x on another
C17_Step(c, d, a, b, x, y) ==
    (x # y /\ CreateJournalEntry(MaxManual, c, d, TwoLines(a, b, x, y)))
    => /\ last'.op = "create_journal_entry" /\ ~last'.ok
       /\ last'.journal_entry_id = NULL
       /\ UNCHANGED tables
       /\ UNCHANGED sessions

\* C17: create_journal_entry called with lines whose total debit differs from
\* their total credit fails and writes nothing: no journal entry and no
\* journal line is added.
C17_ImbalanceWritesNothing ==
    [][\A c \in DocCompanies, d \in DocDates, a \in AccountIds,
          b \in AccountIds, x \in LineAmounts, y \in 0..MaxLineAmount :
          C17_Step(c, d, a, b, x, y)]_vars

\* an unbalanced direct call was refused on a ledger that stays empty
C17_Witness ==
    /\ last.op = "create_journal_entry" /\ ~last.ok
    /\ journal_entries = <<>>

\* ---------------------------------------------------------------- C18
\* the active accounts of a company and type whose code and name contain the hints
Matching(company_id, account_type, code_pattern, name_pattern) ==
    { a \in AccountIds :
        /\ chart_of_accounts[a].company_id = company_id
        /\ chart_of_accounts[a].account_type = account_type
        /\ chart_of_accounts[a].is_active
        /\ ILike(chart_of_accounts[a].code, code_pattern)
        /\ ILike(chart_of_accounts[a].name, name_pattern) }

\* exactly one account comes out of the search with the hints, or none does
\* and exactly one comes out of the search without them
UniquelyResolved(company_id, account_type, code_pattern, name_pattern) ==
    LET hinted == Matching(company_id, account_type, code_pattern, name_pattern)
        any    == Matching(company_id, account_type, NoPattern, NoPattern)
    IN  \/ Cardinality(hinted) = 1
        \/ hinted = {} /\ Cardinality(any) = 1

InvoiceAccountsResolved(company_id) ==
    /\ UniquelyResolved(company_id, ASSET, PatAR, PatReceivable)
    /\ UniquelyResolved(company_id, REVENUE, NoPattern, NoPattern)

BillAccountsResolved(company_id) ==
    /\ UniquelyResolved(company_id, EXPENSE, NoPattern, NoPattern)
    /\ UniquelyResolved(company_id, LIABILITY, PatAP, PatPayable)

C18_InvoiceStep(i) ==
    (/\ PostInvoice(i)
     /\ ~AlreadyPosted(ar_invoices[i])
     /\ ~InvoiceAccountsResolved(ar_invoices[i].company_id))
    => /\ last'.op = "post_invoice" /\ ~last'.ok
       /\ UNCHANGED tables

C18_BillStep(b) ==
    (/\ PostBill(b)
     /\ ~AlreadyPosted(ap_bills[b])
     /\ ~BillAccountsResolved(ap_bills[b].company_id))
    => /\ last'.op = "post_bill" /\ ~last'.ok
       /\ UNCHANGED tables

CashAccounts(company_id) ==
    { a \in AccountIds :
        /\ chart_of_accounts[a].company_id = company_id
        /\ chart_of_accounts[a].is_cash
        /\ chart_of_accounts[a].is_active }

C20_ReceiptStep(r) ==
    (/\ PostReceipt(r)
     /\ ~AlreadyPosted(ar_receipts[r])
     /\ Cardinality(CashAccounts(ar_receipts[r].company_id)) > 1)
    => /\ last'.op = "post_receipt" /\ ~last'.ok
       /\ UNCHANGED tables

C20_PaymentStep(p) ==
    (/\ PostPayment(p)
     /\ ~AlreadyPosted(ap_payments[p])
     /\ Cardinality(CashAccounts(ap_payments[p].company_id)) > 1)
    => /\ last'.op = "post_payment" /\ ~last'.ok
       /\ UNCHANGED tables

\* C20: post_receipt and post_payment on a company with more than one active
\* cash account fail and post nothing.
C20_AmbiguousCashFails ==
    [][/\ \A r \in DOMAIN ar_receipts : C20_ReceiptStep(r)
       /\ \A p \in DOMAIN ap_payments : C20_PaymentStep(p)]_vars

\* ---------------------------------------------------------------- direct calls
\* a chart with an active and a deactivated account of the company and an
\* account of another company
DirectChart == <<
    Account("c1", <<"1", "0", "0", "0">>, NameCash, ASSET, TRUE, TRUE),
    Account("c1", <<"4", "0", "0", "0">>, NameRevenue, REVENUE, FALSE, TRUE),
    Account("c1", <<"4", "2", "0", "0">>, NameRevenue, REVENUE, FALSE, FALSE),
    Account("c2", <<"1", "0", "0", "0">>, NameCash, ASSET, TRUE, TRUE) >>

\* account ids a caller may pass: the rows of the chart and an id of no row
PassedAccountIds == 1..(Len(DirectChart) + 1)

\* line lists a caller may pass: none, or a debit line and a credit line
DirectLines ==
    {<<>>} \cup { TwoLines(a, b, x, y) :
                    a \in PassedAccountIds, b \in PassedAccountIds,
                    x \in 0..MaxLineAmount, y \in 0..MaxLineAmount }

InitDirect ==
    /\ chart_of_accounts = DirectChart
    /\ journal_entries = <<>>
    /\ ar_invoices = <<>>
    /\ ar_receipts = <<>>
    /\ ap_bills = <<>>
    /\ ap_payments = <<>>
    /\ last = NoCall
    /\ sessions = [s \in Sessions |-> Idle]

NextDirect ==
    \E c \in DocCompanies, d \in DocDates, l \in DirectLines :
        CreateJournalEntry(MaxDirect, c, d, l)

SpecDirect == InitDirect /\ [][NextDirect /\ UNCHANGED sessions]_vars

\* ---------------------------------------------------------------- C21
\* C21: every journal line references an account that exists, is owned by
\* the company of its entry and is active.
C21_LinesOnActiveOwnAccounts ==
    \A e \in DOMAIN journal_entries :
        \A k \in DOMAIN journal_entries[e].lines :
            LET a == journal_entries[e].lines[k].account_id
            IN  /\ a \in AccountIds
                /\ chart_of_accounts[a].company_id = journal_entries[e].company_id
                /\ chart_of_accounts[a].is_active

\* ---------------------------------------------------------------- C22
\* C22: every persisted journal entry owns at least one journal line.
C22_EntryHasLines ==
    \A e \in DOMAIN journal_entries : Len(journal_entries[e].lines) >= 1

\* ---------------------------------------------------------------- ledgers
\* a chart with an account of every kind the cash-flow classification tells apart
LedgerChart == <<
    Account("c1", <<"1", "0", "0", "0">>, NameCash, ASSET, TRUE, TRUE),
    Account("c1", <<"4", "0", "0", "0">>, NameRevenue, REVENUE, FALSE, TRUE),
    Account("c1", <<"5", "0", "0", "0">>, NameExpense, EXPENSE, FALSE, TRUE),
    Account("c1", <<"1", "5", "0", "0">>, NameReceivable, ASSET, FALSE, TRUE),
    Account("c1", <<"2", "0", "0", "0">>, NamePayable, LIABILITY, FALSE, TRUE),
    Account("c1", <<"3", "0", "0", "0">>, NamePayable, EQUITY, FALSE, TRUE) >>

\* the POSTED entries of company c1 a ledger is made of: cash received for
\* revenue, cash paid for equipment, cash borrowed, an expense on credit (no
\* cash line), cash received against two accounts of different categories, a
\* cash line reversed in the same entry (no change in cash), and, at the
\* later date, cash received for revenue and cash paid for an expense
PostedRows == {
    << <<2025, 1, 15>>, TwoLines(1, 2, 1, 1) >>,
    << <<2025, 1, 15>>, TwoLines(4, 1, 1, 1) >>,
    << <<2025, 1, 15>>, TwoLines(1, 5, 1, 1) >>,
    << <<2025, 1, 15>>, TwoLines(3, 5, 1, 1) >>,
    << <<2025, 1, 15>>, << Line(1, 2, 0), Line(2, 0, 1), Line(5, 0, 1) >> >>,
    << <<2025, 1, 15>>, TwoLines(1, 1, 1, 1) >>,
    << <<2025, 2, 10>>, TwoLines(1, 2, 1, 1) >>,
    << <<2025, 2, 10>>, TwoLines(3, 1, 1, 1) >> }

\* the entries that no report of company c1 should read: not POSTED, or of
\* another company
OtherHeaders == { <<"c1", DRAFT>>, <<"c1", VOID>>, <<"c2", POSTED>> }

\* db.add(JournalEntry(...)) with its lines, as the reporting tests fill the
\* ledger: a row with any status
InsertEntry(cap, company_id, entry_date, status, lines_list) ==
    /\ Len(journal_entries) < cap
    /\ journal_entries' = Append(journal_entries,
          [company_id |-> company_id, date |-> entry_date,
           source_module |-> MANUAL, source_id |-> NoSource,
           status |-> status, lines |-> lines_list])
    /\ last' = Call("insert_entry", Len(journal_entries) + 1, TRUE,
                    Len(journal_entries) + 1)
    /\ UNCHANGED <<chart_of_accounts, ar_invoices, ar_receipts, ap_bills,
                   ap_payments>>

InitLedger ==
    /\ chart_of_accounts = LedgerChart
    /\ journal_entries = <<>>
    /\ ar_invoices = <<>>
    /\ ar_receipts = <<>>
    /\ ap_bills = <<>>
    /\ ap_payments = <<>>
    /\ last = NoCall
    /\ sessions = [s \in Sessions |-> Idle]

NextLedger ==
    \/ \E r \in PostedRows : InsertEntry(MaxRows, "c1", r[1], POSTED, r[2])
    \/ \E h \in OtherHeaders, d \in DocDates :
           InsertEntry(MaxRows, h[1], d, h[2], TwoLines(1, 2, 1, 1))
    \/ \E d \in DocDates : CreateInvoice(MaxLedgerDocs, "c1", d, MaxAmount)
    \/ \E c \in DocCompanies, f \in Dates, t \in Dates :
           ProfitAndLossReport(c, f, t, "monthly")
    \/ \E c \in DocCompanies, d \in Dates : BalanceSheetReport(c, d)
    \/ \E c \in DocCompanies, f \in Dates, t \in Dates : CashFlowReport(c, f, t)

SpecLedger == InitLedger /\ [][NextLedger /\ UNCHANGED sessions]_vars

\* ledgers for comparing reports: at each date cash received for revenue,
\* at the earlier one also cash received against two accounts, at the later
\* one cash paid for an expense; each report is asked once, over both dates
WindowRows == {
    << <<2025, 1, 15>>, TwoLines(1, 2, 1, 1) >>,
    << <<2025, 1, 15>>, << Line(1, 2, 0), Line(2, 0, 1), Line(5, 0, 1) >> >>,
    << <<2025, 2, 10>>, TwoLines(1, 2, 1, 1) >>,
    << <<2025, 2, 10>>, TwoLines(3, 1, 1, 1) >> }

NextWindow ==
    \/ \E r \in WindowRows : InsertEntry(MaxRows, "c1", r[1], POSTED, r[2])
    \/ \E h \in OtherHeaders, d \in DocDates :
           InsertEntry(MaxRows, h[1], d, h[2], TwoLines(1, 2, 1, 1))
    \/ \E d \in DocDates : CreateInvoice(MaxLedgerDocs, "c1", d, MaxAmount)
    \/ ProfitAndLossReport("c1", <<2025, 1, 15>>, <<2025, 2, 10>>, "monthly")
    \/ BalanceSheetReport("c1", <<2025, 2, 10>>)
    \/ CashFlowReport("c1", <<2025, 1, 15>>, <<2025, 2, 10>>)

SpecWindow == InitLedger /\ [][NextWindow /\ UNCHANGED sessions]_vars

\* ---------------------------------------------------------------- C23
\* every report get_cash_flow may return, one per order of the lines
CashFlowReports(company_id, date_from, date_to) ==
    { GetCashFlow(company_id, date_from, date_to, first_non_cash) :
        first_non_cash \in
            FirstNonCashChoices(CountedEntries(company_id, date_from, date_to)) }

\* the step added one journal entry: that entry, else the ledger is unchanged
Added == journal_entries'[Len(journal_entries')]
EntryAdded == /\ Len(journal_entries') = Len(journal_entries) + 1
              /\ SubSeq(journal_entries', 1, Len(journal_entries)) = journal_entries
\* the step changed subledger documents and left the ledger alone
DocumentsOnly == /\ journal_entries' = journal_entries
                 /\ <<ar_invoices, ar_receipts, ap_bills, ap_payments>>' #
                        <<ar_invoices, ar_receipts, ap_bills, ap_payments>>

Outside(entry, company_id) == entry.status # POSTED \/ entry.company_id # company_id

C23_Step(c, f, t) ==
    /\ (\/ DocumentsOnly
        \/ EntryAdded /\ (Outside(Added, c) \/ ~(DateLE(f, Added.date) /\ DateLE(Added.date, t))))
       => GetProfitAndLoss(c, f, t, "monthly")' = GetProfitAndLoss(c, f, t, "monthly")
    /\ (\/ DocumentsOnly
        \/ EntryAdded /\ (Outside(Added, c) \/ ~DateLE(Added.date, t)))
       => GetBalanceSheet(c, t)' = GetBalanceSheet(c, t)
    /\ (\/ DocumentsOnly
        \/ EntryAdded /\ (Outside(Added, c) \/ ~(DateLE(Added.date, t) \/ DateLT(Added.date, f))))
       => CashFlowReports(c, f, t)' = CashFlowReports(c, f, t)

\* C23: a step that changes only subledger documents, or adds a journal
\* entry that is not POSTED, is of another company or is dated outside the
\* window of a report, leaves that report as it was.
C23_ReportsReadPostedInWindow ==
    [][\A c \in DocCompanies, f \in Dates, t \in Dates : C23_Step(c, f, t)]_vars

\* a cash-flow report with cash received was returned on a ledger that holds
\* an entry no report should read
C23_Witness ==
    /\ last.op = "get_cash_flow"
    /\ last.categories["OPERATING"].inflows > 0
    /\ \E e \in DOMAIN journal_entries : Outside(journal_entries[e], "c1")

\* ---------------------------------------------------------------- C24
\* for each counted entry its first non-cash line in the order of the
\* entry's lines, <<0, 0>> when it has none
InLineOrder(company_id, date_from, date_to) ==
    [e \in CountedEntries(company_id, date_from, date_to) |->
        IF NonCashLinesOf(e) = {} THEN <<0, 0>>
        ELSE <<e, CHOOSE k \in DOMAIN journal_entries[e].lines :
                     /\ <<e, k>> \in NonCashLinesOf(e)
                     /\ \A j \in 1..(k - 1) : <<e, j>> \notin NonCashLinesOf(e)>>]

C24_Step(c, f, t) ==
    CashFlowReport(c, f, t)
    => last' = GetCashFlow(c, f, t, InLineOrder(c, f, t))

\* C24: get_cash_flow puts the cash change of every counted entry into the
\* category of the entry's first non-cash line in the order of the entry's
\* lines, whatever the order in which the store returns the lines.
C24_CategoryOfFirstLine ==
    [][\A c \in DocCompanies, f \in Dates, t \in Dates : C24_Step(c, f, t)]_vars

\* ---------------------------------------------------------------- C29
\* the POSTED lines of a company dated up to a day
PostedLinesUpTo(company_id, day) ==
    { l \in AllLines :
        /\ EntryOf(l).company_id = company_id
        /\ EntryOf(l).status = POSTED
        /\ DateLE(EntryOf(l).date, day) }

\* revenue (credit - debit) less expenses (debit - credit) up to a day
NetIncomeUpTo(company_id, day) ==
    LET lines == PostedLinesUpTo(company_id, day)
        signed == [l \in lines |-> LineOf(l).credit - LineOf(l).debit]
    IN  SumSet(signed, { l \in lines : AccountOf(l).account_type \in {REVENUE, EXPENSE} })

IsLeap(y) == (y % 4 = 0 /\ y % 100 # 0) \/ y % 400 = 0
DaysIn(y, m) ==
    IF m = 2 THEN (IF IsLeap(y) THEN 29 ELSE 28)
    ELSE IF m \in {4, 6, 9, 11} THEN 30 ELSE 31
\* date + timedelta(days=1)
NextDay(d) ==
    IF d[3] < DaysIn(d[1], d[2]) THEN <<d[1], d[2], d[3] + 1>>
    ELSE IF d[2] < 12 THEN <<d[1], d[2] + 1, 1>>
    ELSE <<d[1] + 1, 1, 1>>

\* debit - credit over the cash lines of the POSTED entries up to a day
CashUpTo(company_id, day) ==
    LET lines == PostedLinesUpTo(company_id, day)
        signed == [l \in lines |-> LineOf(l).debit - LineOf(l).credit]
    IN  SumSet(signed, { l \in lines : AccountOf(l).is_cash })

\* C30: for date_from <= date_to every report get_cash_flow may return has
\* closing_cash equal to the cash balance up to date_to, which is the
\* opening_cash of every report for a period that starts the next day.
C30_ClosingIsCashUpTo ==
    \A c \in DocCompanies, f \in Dates, t \in Dates :
        DateLE(f, t) =>
            \A r \in CashFlowReports(c, f, t) :
                /\ r.closing_cash = CashUpTo(c, t)
                /\ \A n \in CashFlowReports(c, NextDay(t), NextDay(t)) :
                       n.opening_cash = r.closing_cash

\* a cash-flow report over the later date was returned with cash on hand at
\* its start and cash paid out in the period
C30_Witness ==
    /\ last.op = "get_cash_flow"
    /\ last \in CashFlowReports("c1", <<2025, 2, 10>>, <<2025, 2, 10>>)
    /\ last.opening_cash > 0
    /\ last.categories["OPERATING"].outflows > 0
    /\ last.closing_cash = CashUpTo("c1", <<2025, 2, 10>>)

\* ---------------------------------------------------------------- C26
\* the status a posted document should show for its balance
StatusAgrees(doc, opened) ==
    /\ doc.status = PAID <=> doc.balance_amount <= 0
    /\ doc.status = PARTIALLY_PAID <=>
           (0 < doc.balance_amount /\ doc.balance_amount < doc.total_amount)
    /\ doc.status = opened <=> doc.balance_amount = doc.total_amount

\* C26: every posted invoice that is not VOID is PAID exactly when its
\* balance is <= 0, PARTIALLY_PAID exactly when 0 < balance < total and SENT
\* exactly when balance = total; every posted bill likewise with APPROVED.
\* Stated for documents with a positive total.
C26_StatusAgreesWithBalance ==
    /\ \A i \in DOMAIN ar_invoices :
           (/\ ar_invoices[i].journal_entry_id # NULL
            /\ ar_invoices[i].status # VOID
            /\ ar_invoices[i].total_amount > 0)
           => StatusAgrees(ar_invoices[i], SENT)
    /\ \A b \in DOMAIN ap_bills :
           (/\ ap_bills[b].journal_entry_id # NULL
            /\ ap_bills[b].status # VOID
            /\ ap_bills[b].total_amount > 0)
           => StatusAgrees(ap_bills[b], APPROVED)

\* ---------------------------------------------------------------- C27
\* C27: in every journal entry created by a posting call the debited account
\* and the credited account are different accounts.
C27_DebitAndCreditAccountsDiffer ==
    \A e \in DOMAIN journal_entries :
        journal_entries[e].source_module \in {AR, AP}
        => \A j \in DOMAIN journal_entries[e].lines,
              k \in DOMAIN journal_entries[e].lines :
               j # k => journal_entries[e].lines[j].account_id #
                        journal_entries[e].lines[k].account_id

\* ---------------------------------------------------------------- C28
\* debit - credit over the POSTED lines on an account
LedgerBalance(account_id) ==
    LET lines == { l \in AllLines :
                     /\ EntryOf(l).status = POSTED
                     /\ LineOf(l).account_id = account_id }
    IN  SumSet([l \in lines |-> LineOf(l).debit - LineOf(l).credit], lines)

InvoicesOf(company_id) ==
    { i \in DOMAIN ar_invoices : ar_invoices[i].company_id = company_id }
ReceiptsOf(company_id) ==
    { r \in DOMAIN ar_receipts : ar_receipts[r].company_id = company_id }

\* every invoice and every receipt of the company is posted and every
\* receipt is linked to one of the invoices
AllPostedAndLinked(company_id) ==
    /\ \A i \in InvoicesOf(company_id) : ar_invoices[i].journal_entry_id # NULL
    /\ \A r \in ReceiptsOf(company_id) :
           /\ ar_receipts[r].journal_entry_id # NULL
           /\ ar_receipts[r].invoice_id \in InvoicesOf(company_id)

\* the receivable account resolves, to an account that is not a cash account
ReceivableResolved(company_id) ==
    LET ar == FindWithFallback(company_id, ASSET, PatAR, PatReceivable)
    IN  /\ ~ar.raised
        /\ ar.account # NULL
        /\ ~chart_of_accounts[ar.account].is_cash

\* C28: when the receivable account of a company resolves to a non-cash
\* account and every invoice and receipt of the company is posted, every
\* receipt being linked to one of the invoices, the ledger balance of the
\* receivable account equals the sum of the balances of the invoices.
C28_ReceivableControlAccount ==
    \A c \in DocCompanies :
        (ReceivableResolved(c) /\ AllPostedAndLinked(c))
        => LedgerBalance(FindWithFallback(c, ASSET, PatAR, PatReceivable).account)
               = SumSet([i \in InvoicesOf(c) |-> ar_invoices[i].balance_amount],
                        InvoicesOf(c))

\* an invoice and a receipt applied to it are posted and part of the invoice
\* is still open
C28_Witness ==
    /\ ReceivableResolved("c1") /\ AllPostedAndLinked("c1")
    /\ ReceiptsOf("c1") # {}
    /\ \E r \in ReceiptsOf("c1") : ar_receipts[r].amount > 0
    /\ \E i \in InvoicesOf("c1") :
           0 < ar_invoices[i].balance_amount
           /\ ar_invoices[i].balance_amount < ar_invoices[i].total_amount

\* ---------------------------------------------------------------- amounts
\* A Numeric(18, 2) column holds up to 16 integer digits.  An amount is
\* written [hi, cents] and stands for hi * 2^53 + cents / 100: with hi = 0
\* it has at most 15 significant digits, with hi = 1 it lies in
\* [2^53, 2^54), where the doubles are the even integers.
ColumnAmounts == [hi : {0, 1}, cents : 0..MaxOffset]

\* n / d rounded to the nearest integer, ties to the even one
RoundHalfEven(n, d) ==
    LET q == n \div d
        r == n % d
    IN  IF 2 * r < d THEN q
        ELSE IF 2 * r > d THEN q + 1
        ELSE IF q % 2 = 0 THEN q ELSE q + 1

\* float(amount): the nearest double, ties to the even mantissa.  Below 2^53
\* the double is named by the amount (of at most 15 significant digits) it
\* is nearest to; from 2^53 on it is the nearest even integer (the mantissa
\* of 2^53 + 2 q is 2^52 + q).
FloatOfDecimal(amount) ==
    IF amount.hi = 0 THEN amount
    ELSE [hi |-> 1, cents |-> 200 * RoundHalfEven(amount.cents, 200)]

\* Decimal(str(f)): str gives the shortest digits that read back as f, which
\* are the digits of the amount naming f below 2^53 and the digits of the
\* integer f from 2^53 on
DecimalOfFloatStr(f) == f

\* what a posting call hands to create_journal_entry for a document amount
\* and what create_journal_entry stores on the line
HandAmount(op, amount) ==
    /\ last' = [op |-> op, amount |-> amount,
                handed |-> FloatOfDecimal(amount),
                stored |-> DecimalOfFloatStr(FloatOfDecimal(amount))]
    /\ UNCHANGED tables

NextAmounts == \E op \in PostOps, amount \in ColumnAmounts : HandAmount(op, amount)

SpecAmounts == Init /\ [][NextAmounts /\ UNCHANGED sessions]_vars

\* ---------------------------------------------------------------- C25
\* C25: the amount stored on a journal line by a posting call equals the
\* amount of the document, for every amount the column can hold.
C25_AmountKeptExactly ==
    last.op \in PostOps => last.stored = last.amount

====
